---- MODULE Spec2Model ----
(***************************************************************************)
(* A model of the query orchestration core of irrexplorer:                 *)
(*   - the Redis memoization layer (irrexplorer/api/caching.py),           *)
(*   - the prefix collector and collator (irrexplorer/api/collectors.py),  *)
(*   - RIR/NIR resolution (PrefixCollector._rir_for_prefix).               *)
(* Each component has its own specification; the variables of the other    *)
(* components keep their initial values under it.                          *)
(***************************************************************************)
EXTENDS Integers, Sequences, FiniteSets, Bags, TLC

(***************************************************************************)
(* Bounds of the model.                                                    *)
(***************************************************************************)
TickStep == 150      \* seconds the clock advances in one Tick
MaxTicks == 5        \* number of Ticks
MaxCalls == 3        \* cached calls started in one behaviour
MaxInflight == 1     \* cached calls suspended in "await func" at once
MaxRefresh == 2      \* background refresh tasks alive at once
MaxFaults == 1       \* store commands that raise in one behaviour

(***************************************************************************)
(* Program constants (caching.py).                                         *)
(***************************************************************************)
DEFAULT_TTL == 300
ASN_SUMMARY_TTL == 600
STALE_GRACE_PERIOD == 300
REVALIDATION_TIMEOUT == 30

VARIABLES
    clock,            \* time.time(), in seconds
    redisConfigured,  \* get_redis() returns a client
    val,              \* Redis: slot -> {} (no key) or {t}: value stored at t
    ts,               \* Redis: slot -> {} or {t}: "<key>:timestamp" holds t
    hits,             \* Redis: irrexplorer:stats:hits (0 when the key is absent)
    misses,           \* Redis: irrexplorer:stats:misses
    inflight,         \* bag of the wrapper calls suspended at "await func(...)"
    refreshes,        \* bag of the _refresh_cache tasks created and not finished
    nCalls,           \* wrapper calls started so far
    faults,           \* store commands that have raised so far
    lastOp            \* what the operation that just finished did

cacheVars == <<clock, redisConfigured, val, ts, hits, misses, inflight,
               refreshes, nCalls, faults, lastOp>>

VARIABLES
    testing,          \* settings.TESTING
    req,              \* the PrefixCollector method called and its argument
    phase,            \* where that call is: "idle", "aggregate", "collect",
                      \* "collected", "done" or "failed"
    tasks,            \* state of each coroutine handed to _execute_tasks
    results,          \* what each of them returned
    searchPrefixes,   \* search_prefixes of _collect_for_prefixes
    rirstats,         \* self.rirstats
    response,         \* what the method returned or raised
    calls,            \* adapter name -> calls issued by this collector
    rirAnswer         \* last _rir_for_prefix call: its argument and its result

collVars == <<testing, req, phase, tasks, results, searchPrefixes, rirstats,
              response, calls, rirAnswer>>

VARIABLES
    irr,              \* the set objects the IRR holds
    expName,          \* name, the argument of collect_set_expansion
    resolved,         \* resolved
    to_resolve,       \* to_resolve
    tree_depth,       \* tree_depth
    expPc,            \* where collect_set_expansion is
    expResult,        \* what it returned
    queries,          \* query_set_members calls issued
    stop              \* why the resolution loop was left

expVars == <<irr, expName, resolved, to_resolve, tree_depth, expPc, expResult,
             queries, stop>>

VARIABLES
    rawQuery,         \* raw_query, the argument of Query(...)
    query,            \* what the call made of it
    previous,         \* what the call before made of the query cleaned here
    resubmits         \* cleaned values given to the classifier again

qryVars == <<rawQuery, query, previous, resubmits>>

VARIABLES
    object_class,     \* object_class, the argument of collect_member_of
    data,             \* data, the answer of query_member_of
    memberOf,         \* result, the MemberOf returned
    mbrPc             \* where collect_member_of is

mbrVars == <<object_class, data, memberOf, mbrPc>>

VARIABLES
    bgpAsn,           \* asn, the argument of query_asn
    matching,         \* rows of the bgp table with that asn
    count,            \* count
    bgpResults,       \* results
    warnings,         \* warnings logged
    bgpPc             \* where query_asn is

bgpVars == <<bgpAsn, matching, count, bgpResults, warnings, bgpPc>>

VARIABLES
    lgPrefix,         \* prefix, the argument of query_prefix
    lgReply,          \* what session.get and response.json() gave
    lgResult,         \* what query_prefix returned
    lgErrors,         \* errors logged
    lgPc              \* where query_prefix is

lgVars == <<lgPrefix, lgReply, lgResult, lgErrors, lgPc>>

srcVars == <<mbrVars, bgpVars, lgVars>>

vars == <<cacheVars, collVars, expVars, qryVars, srcVars>>

\* collect_set_expansion not called
ExpansionIdle ==
    /\ irr = <<>>
    /\ expName = <<>>
    /\ resolved = <<>>
    /\ to_resolve = {}
    /\ tree_depth = 0
    /\ expPc = "idle"
    /\ expResult = <<>>
    /\ queries = 0
    /\ stop = "none"

\* Query(...) not called
QueryIdle ==
    /\ rawQuery = <<>>
    /\ query = [outcome |-> "none", category |-> "", cleaned_value |-> <<>>,
                error |-> "", floor |-> 0]
    /\ previous = query
    /\ resubmits = 0

\* collect_member_of not called
MemberOfIdle ==
    /\ object_class = ""
    /\ data = <<>>
    /\ memberOf = <<>>
    /\ mbrPc = "idle"

\* BGPQuery.query_asn not called
BgpIdle ==
    /\ bgpAsn = 0
    /\ matching = 0
    /\ count = 0
    /\ bgpResults = <<>>
    /\ warnings = 0
    /\ bgpPc = "idle"

\* LookingGlassClient.query_prefix not called
LookingGlassIdle ==
    /\ lgPrefix = ""
    /\ lgReply = [status |-> 0, raised |-> "", body |-> <<>>]
    /\ lgResult = [prefix |-> "", routes |-> <<>>, has_error |-> FALSE,
                   error |-> "", status |-> 0]
    /\ lgErrors = 0
    /\ lgPc = "idle"

SourcesIdle == MemberOfIdle /\ BgpIdle /\ LookingGlassIdle

(***************************************************************************)
(* A PrefixCollector right after __init__ (collectors.py lines 41-45),     *)
(* no method called yet.                                                   *)
(***************************************************************************)
Adapters == <<"IRR", "BGP", "RIRSTATS">>

NoPrefix == [v |-> 0, len |-> 0, net |-> 0]

NoRequest == [op |-> "none", prefix |-> NoPrefix, asn |-> 0]

NoResponse == [kind |-> "none"]

NoRir == "none"

NoAnswer == [prefix |-> NoPrefix, rir |-> NoRir, asked |-> FALSE]

PrefixCollectorInit ==
    /\ req = NoRequest
    /\ phase = "idle"
    /\ tasks = <<>>
    /\ results = <<>>
    /\ searchPrefixes = {}
    /\ rirstats = <<>>
    /\ response = NoResponse
    /\ calls = [a \in {Adapters[i] : i \in DOMAIN Adapters} |-> 0]
    /\ rirAnswer = NoAnswer

(***************************************************************************)
(* Strings are sequences of one-character strings.                         *)
(***************************************************************************)
Digit(d) == <<"0","1","2","3","4","5","6","7","8","9">>[d + 1]

RECURSIVE DecStr(_)
\* str(n) for a natural number n
DecStr(n) == IF n < 10 THEN <<Digit(n)>> ELSE DecStr(n \div 10) \o <<Digit(n % 10)>>

SetMin(S) == CHOOSE x \in S : \A y \in S : x <= y

OccursAt(s, lit, i) ==
    /\ i >= 1
    /\ i + Len(lit) - 1 <= Len(s)
    /\ \A j \in 1..Len(lit) : s[i + j - 1] = lit[j]

\* least position >= from at which lit occurs in s, 0 when there is none
FindFrom(s, lit, from) ==
    LET c == {i \in from..(Len(s) - Len(lit) + 1) : OccursAt(s, lit, i)}
    IN  IF c = {} THEN 0 ELSE SetMin(c)

RECURSIVE AfterMids(_, _, _)
\* position after the leftmost matches of the literals mids, in order, from pos
AfterMids(s, mids, pos) ==
    IF mids = <<>> THEN pos
    ELSE LET at == FindFrom(s, Head(mids), pos)
         IN  IF at = 0 THEN 0
             ELSE AfterMids(s, Tail(mids), at + Len(Head(mids)))

\* Redis KEYS glob  head*mid1*...*midn*tail  (no other metacharacters)
GlobMatch(head, mids, tail, s) ==
    /\ OccursAt(s, head, 1)
    /\ LET p == AfterMids(s, mids, Len(head) + 1)
       IN  /\ p # 0
           /\ Len(s) - Len(tail) + 1 >= p
           /\ OccursAt(s, tail, Len(s) - Len(tail) + 1)

(***************************************************************************)
(* The cached operations and their keys.                                   *)
(***************************************************************************)
\* the resource ids that invalidations name
ASNs == {6, 174}

\* the decorated operations and their arguments: asn_summary is
\* @cached(ttl=ASN_SUMMARY_TTL); "revalidated" is an operation under
\* @cached(key_prefix="revalidated", stale_while_revalidate=True)
Slots == {<<"asn_summary", 174>>, <<"revalidated", 174>>}

Ttl(op) == IF op = "asn_summary" THEN ASN_SUMMARY_TTL ELSE DEFAULT_TTL

StaleWhileRevalidate(op) == op = "revalidated"

\* prefix = key_prefix or f"{func.__module__}.{func.__name__}"
KeyPrefix(op) ==
    IF op = "asn_summary"
    THEN <<"i","r","r","e","x","p","l","o","r","e","r",".","a","p","i",".",
           "c","o","l","l","e","c","t","o","r","s",".",
           "a","s","n","_","s","u","m","m","a","r","y">>
    ELSE <<"r","e","v","a","l","i","d","a","t","e","d">>

\* hashlib.md5(json.dumps({"args": [str(arg)], "kwargs": {}},
\*             sort_keys=True).encode()).hexdigest()
Md5Hex(arg) ==
    CASE arg = 6 ->
           <<"b","b","9","7","1","a","4","d","7","0","b","f","8","7","f","7",
             "f","3","c","c","8","e","2","d","7","0","9","1","8","4","d","4">>
      [] arg = 174 ->
           <<"a","9","e","2","1","7","2","8","6","2","e","a","2","1","9","b",
             "1","f","4","6","e","0","f","1","e","f","9","9","3","3","a","c">>

NsPrefix == <<"i","r","r","e","x","p","l","o","r","e","r",":">>

TimestampSuffix == <<":","t","i","m","e","s","t","a","m","p">>

\* f"irrexplorer:{prefix}:{hash_key}"
cache_key(k) == NsPrefix \o KeyPrefix(k[1]) \o <<":">> \o Md5Hex(k[2])

\* f"{key}:timestamp"
timestamp_key(k) == cache_key(k) \o TimestampSuffix

HitsKey == NsPrefix \o <<"s","t","a","t","s",":","h","i","t","s">>

MissesKey == NsPrefix \o <<"s","t","a","t","s",":","m","i","s","s","e","s">>

\* setex(key, ttl + STALE_GRACE_PERIOD, ...): seconds a stored key lives
Lifetime(k) == Ttl(k[1]) + STALE_GRACE_PERIOD

\* what redis_client.get sees at time now of a key written at the times in e
Live(e, k, now) == {t \in e : now < t + Lifetime(k)}

(***************************************************************************)
(* The record of the operation that finished last.                         *)
(***************************************************************************)
NoOp ==
    [kind |-> "init", key |-> <<"", 0>>, path |-> "", age |-> {},
     tsAge |-> {}, scheduled |-> FALSE, failed |-> FALSE, wfail |-> "none",
     stored |-> FALSE, rtype |-> "", status |-> ""]

\* ages at time now of the entries written at the times in e
Ages(e, now) == {now - t : t \in e}

\* the window of line 118 with its ends included
StaleInGraceClosed(age, ttl) == ttl <= age /\ age <= ttl + STALE_GRACE_PERIOD

\* caching.py line 118: the entry is stale but within the grace period
StaleInGrace(age, ttl) == ttl < age /\ age < ttl + STALE_GRACE_PERIOD

\* lines 113-126: a hit schedules a refresh
SchedulesRefresh(k, now) ==
    /\ StaleWhileRevalidate(k[1])
    /\ \E t \in Live(ts[k], k, now) : StaleInGrace(now - t, Ttl(k[1]))

\* a store command may raise while fewer than MaxFaults have
Raises(f) ==
    IF f = "none" THEN faults' = faults
    ELSE faults < MaxFaults /\ faults' = faults + 1

(***************************************************************************)
(* cached.wrapper up to "await func": lines 91-138.  f is the store        *)
(* command that raises in this call ("none": no command raises).           *)
(***************************************************************************)
Suspend(k, f) ==
    /\ BagCardinality(inflight) < MaxInflight
    /\ inflight' = inflight (+) SetToBag({[key |-> k, failed |-> f # "none"]})
    /\ lastOp' = [NoOp EXCEPT !.kind = "begin"]

\* lines 106-128: the value was found and no command raises
CacheHit(k) ==
    /\ hits' = hits + 1
    /\ IF SchedulesRefresh(k, clock)
       THEN /\ BagCardinality(refreshes) < MaxRefresh
            /\ refreshes' = refreshes (+)
                                SetToBag({[key |-> k, started |-> clock]})
       ELSE UNCHANGED refreshes
    /\ lastOp' = [NoOp EXCEPT
           !.kind = "call", !.key = k, !.path = "hit",
           !.age = Ages(Live(val[k], k, clock), clock),
           !.tsAge = IF StaleWhileRevalidate(k[1])
                     THEN Ages(Live(ts[k], k, clock), clock)
                     ELSE {},
           !.scheduled = SchedulesRefresh(k, clock)]
    /\ UNCHANGED <<misses, inflight>>

CallBegin(k, f) ==
    /\ nCalls < MaxCalls
    /\ nCalls' = nCalls + 1
    /\ Raises(f)
    /\ UNCHANGED <<clock, redisConfigured, val, ts>>
    /\ IF ~redisConfigured
       THEN \* lines 95-96
            /\ f = "none"
            /\ Suspend(k, f)
            /\ UNCHANGED <<hits, misses, refreshes>>
       ELSE IF f = "get"
       THEN \* line 105 raises
            /\ Suspend(k, f)
            /\ UNCHANGED <<hits, misses, refreshes>>
       ELSE IF Live(val[k], k, clock) # {}
       THEN \* lines 106-128: cache hit
            IF f = "none" THEN CacheHit(k)
            ELSE /\ f = "tsget" => StaleWhileRevalidate(k[1])
                 /\ hits' = IF f = "incr" THEN hits ELSE hits + 1
                 /\ Suspend(k, f)
                 /\ UNCHANGED <<misses, refreshes>>
       ELSE \* lines 130-131: cache miss
            /\ f \in {"none", "incr"}
            /\ misses' = IF f = "incr" THEN misses ELSE misses + 1
            /\ Suspend(k, f)
            /\ UNCHANGED <<hits, refreshes>>

(***************************************************************************)
(* The store after lines 142-147 (and 172-174): wf is the setex that       *)
(* raises ("set": the value's, "tsset": the timestamp's).                  *)
(***************************************************************************)
ValAfterStore(k, wf) ==
    IF wf = "set" THEN val ELSE [val EXCEPT ![k] = {clock}]

TsAfterStore(k, wf, withTs) ==
    IF wf = "none" /\ withTs THEN [ts EXCEPT ![k] = {clock}] ELSE ts

(***************************************************************************)
(* cached.wrapper from the return of func: lines 138-152.  r is what func  *)
(* did ("ok" or "raise").                                                  *)
(***************************************************************************)
CallFinish(c, r, wf) ==
    LET k == c.key
    IN  /\ inflight' = inflight (-) SetToBag({c})
        /\ Raises(wf)
        /\ UNCHANGED <<clock, redisConfigured, hits, misses, refreshes, nCalls>>
        /\ IF r = "raise"
           THEN /\ wf = "none"
                /\ UNCHANGED <<val, ts>>
                /\ lastOp' = [NoOp EXCEPT
                       !.kind = "call", !.key = k, !.path = "raised",
                       !.failed = c.failed]
           ELSE /\ wf = "tsset" => StaleWhileRevalidate(k[1])
                /\ ~redisConfigured => wf = "none"
                /\ val' = IF redisConfigured THEN ValAfterStore(k, wf) ELSE val
                /\ ts' = IF redisConfigured
                         THEN TsAfterStore(k, wf, StaleWhileRevalidate(k[1]))
                         ELSE ts
                /\ lastOp' = [NoOp EXCEPT
                       !.kind = "call", !.key = k, !.path = "executed",
                       !.failed = c.failed, !.wfail = wf,
                       !.stored = (val'[k] # val[k])]

(***************************************************************************)
(* _refresh_cache: lines 159-179.  r: "ok", "raise" or "timeout".          *)
(***************************************************************************)
RefreshFinish(c, r, wf) ==
    LET k == c.key
    IN  /\ refreshes' = refreshes (-) SetToBag({c})
        /\ Raises(wf)
        /\ UNCHANGED <<clock, redisConfigured, hits, misses, inflight, nCalls>>
        /\ IF r = "ok"
           THEN /\ clock - c.started <= REVALIDATION_TIMEOUT
                /\ val' = ValAfterStore(k, wf)
                /\ ts' = TsAfterStore(k, wf, TRUE)
           ELSE /\ IF r = "timeout"
                   THEN clock - c.started >= REVALIDATION_TIMEOUT
                   ELSE clock - c.started <= REVALIDATION_TIMEOUT
                /\ wf = "none"
                /\ UNCHANGED <<val, ts>>
        /\ lastOp' = [NoOp EXCEPT
               !.kind = "refresh", !.key = k, !.path = r, !.wfail = wf,
               !.stored = (val'[k] # val[k])]

(***************************************************************************)
(* Time passes; Redis drops the keys whose expiry has been reached.        *)
(***************************************************************************)
Tick ==
    /\ clock + TickStep <= MaxTicks * TickStep
    /\ clock' = clock + TickStep
    /\ val' = [k \in Slots |-> Live(val[k], k, clock')]
    /\ ts' = [k \in Slots |-> Live(ts[k], k, clock')]
    /\ lastOp' = [NoOp EXCEPT !.kind = "tick"]
    /\ UNCHANGED <<redisConfigured, hits, misses, inflight, refreshes,
                   nCalls, faults>>

(***************************************************************************)
(* invalidate_cache_by_resource: lines 207-259.                            *)
(***************************************************************************)
\* lines 226-231: the literal after the first "*" of the pattern
FamilyLiteral(rtype) ==
    CASE rtype = "asn" -> <<"a","s","n","_","s","u","m","m","a","r","y">>
      [] rtype = "prefix" ->
           <<"p","r","e","f","i","x","_","s","u","m","m","a","r","y">>
      [] rtype = "set" ->
           <<"s","e","t","_","e","x","p","a","n","s","i","o","n">>

\* lines 239-241: s is returned by keys(f"irrexplorer:{pattern}") or by
\* keys(f"irrexplorer:{pattern}:timestamp"), pattern = f"*{family}*{rid}*"
InvalidationMatches(rtype, rid, s) ==
    \/ GlobMatch(NsPrefix, <<FamilyLiteral(rtype), rid>>, <<>>, s)
    \/ GlobMatch(NsPrefix, <<FamilyLiteral(rtype), rid>>, TimestampSuffix, s)

KnownResourceTypes == {"asn", "prefix", "set"}

\* the keys of the store that an invalidation of (rtype, str(a)) deletes
InvalidatedKeys ==
    [rtype \in KnownResourceTypes, a \in ASNs |->
        [vals |-> {k \in Slots :
                      InvalidationMatches(rtype, DecStr(a), cache_key(k))},
         tss |-> {k \in Slots :
                      InvalidationMatches(rtype, DecStr(a), timestamp_key(k))},
         hits |-> InvalidationMatches(rtype, DecStr(a), HitsKey),
         misses |-> InvalidationMatches(rtype, DecStr(a), MissesKey)]]

InvalidateCacheByResource(rtype, a, f) ==
    LET ok == redisConfigured /\ rtype \in KnownResourceTypes /\ f = "none"
        del == InvalidatedKeys[rtype, a]
    IN  /\ Raises(f)
        /\ f # "none" => redisConfigured /\ rtype \in KnownResourceTypes
        /\ val' = [k \in Slots |-> IF ok /\ k \in del.vals THEN {} ELSE val[k]]
        /\ ts' = [k \in Slots |-> IF ok /\ k \in del.tss THEN {} ELSE ts[k]]
        /\ hits' = IF ok /\ del.hits THEN 0 ELSE hits
        /\ misses' = IF ok /\ del.misses THEN 0 ELSE misses
        /\ lastOp' = [NoOp EXCEPT
               !.kind = "invalidate", !.key = <<"", a>>, !.rtype = rtype,
               !.failed = (f # "none"),
               !.status = IF ok THEN "success" ELSE "error"]
        /\ UNCHANGED <<clock, redisConfigured, inflight, refreshes, nCalls>>

(***************************************************************************)
(* clear_cache(): lines 182-204, called with the default pattern "*".      *)
(***************************************************************************)
ClearMatches(s) ==
    \/ GlobMatch(NsPrefix, <<>>, <<>>, s)
    \/ GlobMatch(NsPrefix, <<>>, TimestampSuffix, s)

\* the keys of the store that clear_cache() deletes
ClearedKeys ==
    [vals |-> {k \in Slots : ClearMatches(cache_key(k))},
     tss |-> {k \in Slots : ClearMatches(timestamp_key(k))},
     hits |-> ClearMatches(HitsKey),
     misses |-> ClearMatches(MissesKey)]

ClearCache(f) ==
    LET ok == redisConfigured /\ f = "none"
        del == ClearedKeys
    IN  /\ Raises(f)
        /\ f # "none" => redisConfigured
        /\ val' = [k \in Slots |-> IF ok /\ k \in del.vals THEN {} ELSE val[k]]
        /\ ts' = [k \in Slots |-> IF ok /\ k \in del.tss THEN {} ELSE ts[k]]
        /\ hits' = IF ok /\ del.hits THEN 0 ELSE hits
        /\ misses' = IF ok /\ del.misses THEN 0 ELSE misses
        /\ lastOp' = [NoOp EXCEPT !.kind = "clear", !.failed = (f # "none"),
                                  !.status = IF ok THEN "success" ELSE "error"]
        /\ UNCHANGED <<clock, redisConfigured, inflight, refreshes, nCalls>>

(***************************************************************************)
(* The memoization layer as a state machine.                               *)
(***************************************************************************)
\* Redis empty, the clock at its origin
RedisInit ==
    /\ clock = 0
    /\ redisConfigured \in BOOLEAN
    /\ val = [k \in Slots |-> {}]
    /\ ts = [k \in Slots |-> {}]
    /\ hits = 0
    /\ misses = 0
    /\ inflight = EmptyBag
    /\ refreshes = EmptyBag
    /\ nCalls = 0
    /\ faults = 0
    /\ lastOp = NoOp

CacheInit ==
    /\ RedisInit
    /\ ExpansionIdle
    /\ QueryIdle
    /\ SourcesIdle
    /\ testing = FALSE
    /\ PrefixCollectorInit

LookupFailures == {"none", "get", "incr", "loads", "tsget"}

WriteFailures == {"none", "set", "tsset"}

CacheNext ==
    \/ \E k \in Slots, f \in LookupFailures :
           CallBegin(k, f) /\ UNCHANGED <<collVars, expVars, qryVars, srcVars>>
    \/ \E c \in BagToSet(inflight), r \in {"ok", "raise"},
          wf \in WriteFailures : CallFinish(c, r, wf) /\ UNCHANGED <<collVars, expVars, qryVars, srcVars>>
    \/ \E c \in BagToSet(refreshes), r \in {"ok", "raise", "timeout"},
          wf \in WriteFailures : RefreshFinish(c, r, wf) /\ UNCHANGED <<collVars, expVars, qryVars, srcVars>>
    \/ Tick /\ UNCHANGED <<collVars, expVars, qryVars, srcVars>>
    \/ \E rtype \in {"asn", "prefix", "other"}, a \in ASNs,
          f \in {"none", "keys"} :
           /\ rtype # "asn" => a = 174 /\ f = "none"
           /\ InvalidateCacheByResource(rtype, a, f)
           /\ UNCHANGED <<collVars, expVars, qryVars, srcVars>>
    \/ \E f \in {"none", "keys"} : ClearCache(f) /\ UNCHANGED <<collVars, expVars, qryVars, srcVars>>

SpecCache == CacheInit /\ [][CacheNext]_vars

(***************************************************************************)
(* Claims about the memoization layer, checked under SpecCache.            *)
(***************************************************************************)
\* the number of _refresh_cache tasks of key k that are alive
RefreshesInFlight(k) ==
    LET S == {c \in BagToSet(refreshes) : c.key = k}
    IN  BagCardinality([c \in S |-> refreshes[c]])

IsCall == lastOp.kind = "call"

IsHit == IsCall /\ lastOp.path = "hit"

\* C1: at most one background refresh task per cache key is in flight at
\* any moment.
C1_OneRefreshPerKey == \A k \in Slots : RefreshesInFlight(k) <= 1

\* C2: with stale_while_revalidate disabled, a call made more than ttl
\* seconds after the entry was stored is not answered from the cache.
C2_FreshForTtlOnly ==
    (IsHit /\ ~StaleWhileRevalidate(lastOp.key[1]))
        => \A a \in lastOp.age : a <= Ttl(lastOp.key[1])

\* C3 as claimed: with stale_while_revalidate enabled, a read of an entry
\* whose age is in [ttl, ttl+grace] returns the stored value and schedules a
\* refresh; a read of an entry younger than ttl schedules nothing.
C3_ClosedWindow ==
    (IsHit /\ StaleWhileRevalidate(lastOp.key[1]))
        => \A a \in lastOp.age :
              LET ttl == Ttl(lastOp.key[1])
              IN  /\ (ttl <= a /\ a <= ttl + STALE_GRACE_PERIOD)
                        => lastOp.scheduled
                  /\ a < ttl => ~lastOp.scheduled

\* the timestamp read by the hit that just returned has an age strictly
\* between ttl and ttl+grace
TimestampInOpenWindow ==
    \E a \in lastOp.tsAge :
        /\ Ttl(lastOp.key[1]) < a
        /\ a < Ttl(lastOp.key[1]) + STALE_GRACE_PERIOD

C3_HitSchedules ==
    (IsHit /\ StaleWhileRevalidate(lastOp.key[1]))
        => /\ lastOp.scheduled <=> TimestampInOpenWindow
           /\ lastOp.scheduled
                 => BagIn([key |-> lastOp.key, started |-> clock], refreshes)

\* a call that no store command failed is suspended in "await func" only
\* when the store holds no value for its key
C3_LiveValueReturnsAtOnce ==
    \A c \in BagToSet(inflight') :
        (CopiesIn(c, inflight') > CopiesIn(c, inflight)
            /\ ~c.failed /\ redisConfigured)
        => Live(val[c.key], c.key, clock) = {}

\* C3, amended: with stale_while_revalidate enabled, a read that no store
\* command fails and that finds the value returns it at once; it schedules a
\* background refresh iff the stored timestamp has an age strictly between
\* ttl and ttl+grace (so nothing is scheduled at age <= ttl, nor without a
\* timestamp).
C3_OpenWindow == []C3_HitSchedules /\ [][C3_LiveValueReturnsAtOnce]_vars

C3_Witness ==
    /\ IsHit /\ lastOp.scheduled
    /\ lastOp.age = {Ttl(lastOp.key[1]) + TickStep}

\* C4: after invalidate_cache_by_resource("asn", A) returns success, no
\* asn_summary entry of A remains in the store.
C4_InvalidationRemovesEntry ==
    (/\ lastOp.kind = "invalidate"
     /\ lastOp.status = "success"
     /\ lastOp.rtype = "asn"
     /\ <<"asn_summary", lastOp.key[2]>> \in Slots)
        => Live(val[<<"asn_summary", lastOp.key[2]>>],
                <<"asn_summary", lastOp.key[2]>>, clock) = {}

\* C5: when a store command of a cached call fails, the wrapped operation is
\* executed exactly once and its result returned, and the result is not
\* cached when the write failed.
C5_StoreFailureBypasses ==
    (IsCall /\ lastOp.path # "raised"
        /\ (lastOp.failed \/ lastOp.wfail # "none" \/ ~redisConfigured))
        => /\ lastOp.path = "executed"
           /\ lastOp.wfail # "none" => ~lastOp.stored

(***************************************************************************)
(* IP networks.  A prefix is its IP version, its length and the integer    *)
(* formed by its first len bits: 10.0.0.0/8 is [v 4, len 8, net 10].       *)
(***************************************************************************)
P4_8 == [v |-> 4, len |-> 8, net |-> 10]            \* 10.0.0.0/8

P4_9a == [v |-> 4, len |-> 9, net |-> 20]           \* 10.0.0.0/9

P4_9b == [v |-> 4, len |-> 9, net |-> 21]           \* 10.128.0.0/9

P4_10 == [v |-> 4, len |-> 10, net |-> 40]          \* 10.0.0.0/10

P6_28 == [v |-> 6, len |-> 28, net |-> 33558747]    \* 2001:db0::/28

P6_29 == [v |-> 6, len |-> 29, net |-> 67117495]    \* 2001:db8::/29

Prefixes == {P4_8, P4_9a, P4_9b, P4_10, P6_28, P6_29}

RECURSIVE Pow2(_)
Pow2(n) == IF n = 0 THEN 1 ELSE 2 * Pow2(n - 1)

\* q is p or a more specific of p
Contains(p, q) ==
    /\ p.v = q.v
    /\ p.len <= q.len
    /\ q.net \div Pow2(q.len - p.len) = p.net

\* ipaddress: a.overlaps(b); two networks share an address iff one holds
\* the other, and networks of different versions never do
Overlaps(p, q) == Contains(p, q) \/ Contains(q, p)

Range(s) == {s[i] : i \in DOMAIN s}

(***************************************************************************)
(* RIR/NIR resolution: PrefixCollector._rir_for_prefix, lines 160-184.     *)
(* A RIR-stats entry is [prefix, rir]; rir is the name of a member of the  *)
(* RIR enum, which also holds the national registries.                     *)
(***************************************************************************)
MaxRirStats == 2     \* entries in self.rirstats

RIR_NAMES == {"LACNIC", "APNIC"}

NIR_NAMES == {"NICBR", "JPNIC"}

RirStatEntries == [prefix : Prefixes, rir : RIR_NAMES \cup NIR_NAMES]

RECURSIVE SeqsUpTo(_, _)
\* the sequences over S of length at most n
SeqsUpTo(S, n) ==
    IF n = 0 THEN {<<>>}
    ELSE LET shorter == SeqsUpTo(S, n - 1)
         IN shorter \cup {Append(s, x) : s \in shorter, x \in S}

RirStatsLists == SeqsUpTo(RirStatEntries, MaxRirStats)

RECURSIVE InsertByPrefixlenDesc(_, _)
\* r placed behind every entry that is at least as long: equal keys keep
\* the order they had in the input, as sorted(..., reverse=True) does
InsertByPrefixlenDesc(sorted, r) ==
    IF sorted = <<>> THEN <<r>>
    ELSE IF Head(sorted).prefix.len >= r.prefix.len
         THEN <<Head(sorted)>> \o InsertByPrefixlenDesc(Tail(sorted), r)
         ELSE <<r>> \o sorted

RECURSIVE sorted_rirstats(_)
\* lines 171-173
sorted_rirstats(stats) ==
    IF stats = <<>> THEN <<>>
    ELSE InsertByPrefixlenDesc(sorted_rirstats(SubSeq(stats, 1, Len(stats) - 1)),
                               stats[Len(stats)])

IsNirNever(rir) == FALSE

\* line 178: rirstat.rir and rirstat.rir.name in NIR_NAMES
IsNir(rir) == rir # NoRir /\ rir \in NIR_NAMES

RECURSIVE WalkRirstats(_, _, _)
\* the loop of lines 175-182 over what is left of the sorted list; relevant
\* is relevant_rirstat so far (<<>>: None, <<e>>: the entry e)
WalkRirstats(rest, prefix, relevant) ==
    IF rest = <<>> THEN relevant
    ELSE IF Overlaps(Head(rest).prefix, prefix)
         THEN IF IsNir(Head(rest).rir)
              THEN <<Head(rest)>>
              ELSE WalkRirstats(Tail(rest), prefix, <<Head(rest)>>)
         ELSE WalkRirstats(Tail(rest), prefix, relevant)

rir_for_prefix(stats, prefix) ==
    LET relevant_rirstat == WalkRirstats(sorted_rirstats(stats), prefix, <<>>)
    IN IF relevant_rirstat = <<>> THEN NoRir ELSE relevant_rirstat[1].rir

\* _collate_per_prefix asks for the registry of one prefix (line 129)
RirForPrefix(q) ==
    /\ phase = "collected"
    /\ rirAnswer' = [prefix |-> q, rir |-> rir_for_prefix(rirstats, q),
                     asked |-> TRUE]
    /\ UNCHANGED <<cacheVars, expVars, qryVars, srcVars, testing, req, phase, tasks, results,
                   searchPrefixes, rirstats, response, calls>>

\* self.rirstats as _collect_for_prefixes left it (line 87)
RirInit ==
    /\ RedisInit
    /\ ExpansionIdle
    /\ QueryIdle
    /\ SourcesIdle
    /\ redisConfigured = FALSE
    /\ testing = FALSE
    /\ req = NoRequest
    /\ phase = "collected"
    /\ tasks = <<>>
    /\ results = <<>>
    /\ searchPrefixes = {}
    /\ rirstats \in RirStatsLists
    /\ response = NoResponse
    /\ calls = [a \in {Adapters[i] : i \in DOMAIN Adapters} |-> 0]
    /\ rirAnswer = NoAnswer

RirNext == \E q \in Prefixes : RirForPrefix(q)

SpecRir == RirInit /\ [][RirNext]_vars

(***************************************************************************)
(* Claims about RIR/NIR resolution, checked under SpecRir.                 *)
(***************************************************************************)
\* the entries of self.rirstats that overlap the prefix asked about
Overlapping == {i \in DOMAIN rirstats :
                   Overlaps(rirstats[i].prefix, rirAnswer.prefix)}

OverlappingNirs == {i \in Overlapping : rirstats[i].rir \in NIR_NAMES}

\* C7: when no NIR entry overlaps q, resolution returns the rir of the most
\* specific overlapping entry (the first overlapping one in descending
\* prefix-length order), and null when no entry overlaps q.
C7_MostSpecificRir ==
    (rirAnswer.asked /\ OverlappingNirs = {}) =>
        IF Overlapping = {} THEN rirAnswer.rir = NoRir
        ELSE \E i \in Overlapping :
                /\ rirAnswer.rir = rirstats[i].rir
                /\ \A j \in Overlapping :
                      rirstats[j].prefix.len <= rirstats[i].prefix.len

\* C8: whenever at least one NIR entry overlaps p, resolution returns a NIR,
\* the most specific overlapping one, however many RIR entries overlap p and
\* whether they are more or less specific than the NIR entry.
C8_NirPreferred ==
    (rirAnswer.asked /\ OverlappingNirs # {}) =>
        /\ rirAnswer.rir \in NIR_NAMES
        /\ \E i \in OverlappingNirs :
              /\ rirAnswer.rir = rirstats[i].rir
              /\ \A j \in OverlappingNirs :
                    rirstats[j].prefix.len <= rirstats[i].prefix.len

\* a NIR answer although a RIR entry more specific than every overlapping
\* NIR entry overlaps the prefix too
C8_Witness ==
    /\ rirAnswer.asked
    /\ rirAnswer.rir \in NIR_NAMES
    /\ \E i \in Overlapping \ OverlappingNirs : \A j \in OverlappingNirs :
          rirstats[i].prefix.len > rirstats[j].prefix.len

(***************************************************************************)
(* settings.MINIMUM_PREFIX_SIZE, lines 84-87 (the defaults).               *)
(***************************************************************************)
MINIMUM_PREFIX_SIZE_IPV4 == 9

MINIMUM_PREFIX_SIZE_IPV6 == 29

MINIMUM_PREFIX_SIZE(v) ==
    IF v = 4 THEN MINIMUM_PREFIX_SIZE_IPV4 ELSE MINIMUM_PREFIX_SIZE_IPV6

(***************************************************************************)
(* What the source adapters answer.  A route is a RouteInfo reduced to the *)
(* fields the collector reads.  asn None is NoAsn; a missing irr_source is *)
(* the empty string (the code tests "not entry.irr_source").               *)
(***************************************************************************)
MaxIrrRoutes == 2    \* routes in one answer of the IRR adapter

NoAsn == -1

IrrRoutes == {
    [prefix |-> P4_9a, asn |-> 174, irr_source |-> "", rpsl_pk |-> "r1"],
    [prefix |-> P4_10, asn |-> 174, irr_source |-> "RPKI", rpsl_pk |-> "r2"],
    [prefix |-> P4_10, asn |-> 6, irr_source |-> "RADB", rpsl_pk |-> "r3"],
    [prefix |-> P4_10, asn |-> 174, irr_source |-> "RADB", rpsl_pk |-> "r4"],
    [prefix |-> P4_10, asn |-> NoAsn, irr_source |-> "RADB", rpsl_pk |-> "r5"],
    [prefix |-> P4_10, asn |-> 6, irr_source |-> "RPKI", rpsl_pk |-> "r6"],
    [prefix |-> P6_29, asn |-> 6, irr_source |-> "RIPE", rpsl_pk |-> "r7"] }

\* the rows the bgp table may hold, in the order a select yields them
BgpTable == <<
    [prefix |-> P4_8, asn |-> 174],
    [prefix |-> P4_10, asn |-> 6],
    [prefix |-> P4_10, asn |-> 174],
    [prefix |-> P4_9b, asn |-> 174],
    [prefix |-> P6_28, asn |-> 174] >>

RirStatsAnswers == {
    <<>>,
    <<[prefix |-> P4_8, rir |-> "LACNIC"], [prefix |-> P4_9a, rir |-> "NICBR"]>>,
    <<[prefix |-> P6_28, rir |-> "APNIC"]>> }

RECURSIVE DistinctSeqsUpTo(_, _)
\* the sequences of at most n different elements of S
DistinctSeqsUpTo(S, n) ==
    IF n = 0 THEN {<<>>}
    ELSE LET shorter == DistinctSeqsUpTo(S, n - 1)
         IN shorter \cup
            UNION {{Append(s, x) : x \in S \ Range(s)} : s \in shorter}

RECURSIVE SubSeqs(_)
\* the rows of s that some table holds, in the order of s
SubSeqs(s) ==
    IF s = <<>> THEN {<<>>}
    ELSE LET rest == SubSeqs(Tail(s))
         IN rest \cup {<<Head(s)>> \o x : x \in rest}

\* query_prefixes_any answers with rows that overlap a searched prefix
OverlapsAny(p, search) == \E q \in search : Overlaps(p, q)

\* the sets of prefixes a search can be for
SearchSets == SUBSET Prefixes \ {{}}

IrrPrefixAnswers ==
    [search \in SearchSets |->
        DistinctSeqsUpTo({r \in IrrRoutes : OverlapsAny(r.prefix, search)},
                         MaxIrrRoutes)]

BgpPrefixAnswers ==
    [search \in SearchSets |->
        LET Hit(row) == OverlapsAny(row.prefix, search)
        IN SubSeqs(SelectSeq(BgpTable, Hit))]

RirPrefixAnswers ==
    [search \in SearchSets |->
        {s \in RirStatsAnswers :
            \A i \in DOMAIN s : OverlapsAny(s[i].prefix, search)}]

\* query_prefixes_any(search_prefixes) of each adapter
QueryPrefixesAnyAnswers(adapter, search) ==
    CASE adapter = "IRR" -> IrrPrefixAnswers[search]
      [] adapter = "BGP" -> BgpPrefixAnswers[search]
      [] OTHER -> RirPrefixAnswers[search]

IrrAsnAnswers ==
    [asn \in ASNs |->
        DistinctSeqsUpTo({r \in IrrRoutes : r.asn = asn}, MaxIrrRoutes)]

\* BGPQuery.query_asn: the rows of that origin, in table order
BgpAsnAnswers ==
    [asn \in ASNs |->
        LET OfAsn(row) == row.asn = asn IN SubSeqs(SelectSeq(BgpTable, OfAsn))]

\* query_asn(asn) of the IRR and the BGP adapter
QueryAsnAnswers(adapter, asn) ==
    IF adapter = "IRR" THEN IrrAsnAnswers[asn] ELSE BgpAsnAnswers[asn]

(***************************************************************************)
(* ip_networks_aggregates, lines 294-305: aggregate6 drops the prefixes    *)
(* held by another one and joins the two halves of a prefix, until neither *)
(* applies.                                                                *)
(***************************************************************************)
Parent(p) == [v |-> p.v, len |-> p.len - 1, net |-> p.net \div 2]

RECURSIVE ip_networks_aggregates(_)
ip_networks_aggregates(S) ==
    LET kept == {p \in S : ~ \E q \in S : q # p /\ Contains(q, p)}
        halves == {pq \in kept \X kept :
                      /\ pq[1] # pq[2]
                      /\ pq[1].len > 0
                      /\ pq[1].len = pq[2].len
                      /\ Parent(pq[1]) = Parent(pq[2])}
    IN IF halves = {} THEN kept
       ELSE LET pq == CHOOSE x \in halves : TRUE
            IN ip_networks_aggregates((kept \ {pq[1], pq[2]}) \cup {Parent(pq[1])})

\* lines 110-116: the routes' prefixes that are not too large, aggregated
AggregatePrefixesForAsn(routes_irrd, routes_bgp) ==
    ip_networks_aggregates(
        {p \in {r.prefix : r \in Range(routes_irrd) \cup Range(routes_bgp)} :
            MINIMUM_PREFIX_SIZE(p.v) <= p.len})

(***************************************************************************)
(* _collate_per_prefix, lines 118-158.                                     *)
(***************************************************************************)
\* lines 89-93: self.irrd_per_prefix[p] and self.bgp_per_prefix[p]
PerPrefix(routes, p) ==
    LET Here(r) == r.prefix = p IN SelectSeq(routes, Here)

\* lines 124-126
all_prefixes(routes_irrd, routes_bgp) ==
    {r.prefix : r \in Range(routes_irrd)} \cup {r.prefix : r \in Range(routes_bgp)}

\* line 136: key=lambda r: r.asn if r.asn else 0
AsnSortKey(r) == IF r.asn = NoAsn \/ r.asn = 0 THEN 0 ELSE r.asn

RECURSIVE InsertByAsn(_, _)
\* list.sort is stable: r goes behind the entries whose key is not larger
InsertByAsn(sorted, r) ==
    IF sorted = <<>> THEN <<r>>
    ELSE IF AsnSortKey(Head(sorted)) <= AsnSortKey(r)
         THEN <<Head(sorted)>> \o InsertByAsn(Tail(sorted), r)
         ELSE <<r>> \o sorted

SortByAsnUnsorted(entries) == entries

RECURSIVE SortByAsn(_)
SortByAsn(entries) ==
    IF entries = <<>> THEN <<>>
    ELSE InsertByAsn(SortByAsn(SubSeq(entries, 1, Len(entries) - 1)),
                     entries[Len(entries)])

\* lines 138-143: the entries that are not skipped
HasAsnAndSource(entry) == entry.asn # NoAsn /\ entry.irr_source # ""

\* lines 149-155
PrefixIRRDetail(entry) == [asn |-> entry.asn, rpsl_pk |-> entry.rpsl_pk]

Details(entries) == [i \in DOMAIN entries |-> PrefixIRRDetail(entries[i])]

IsRpkiNever(entry) == FALSE

\* lines 144-148: the bucket an entry is appended to
IsRpki(entry) == entry.irr_source = "RPKI"

Summary(p, routes_irrd, routes_bgp, stats) ==
    LET irr_entries == SortByAsn(PerPrefix(routes_irrd, p))
        Rpki(e) == HasAsnAndSource(e) /\ IsRpki(e)
        sources == {irr_entries[i].irr_source : i \in
                       {j \in DOMAIN irr_entries :
                           /\ HasAsnAndSource(irr_entries[j])
                           /\ ~ IsRpki(irr_entries[j])}}
    IN [prefix |-> p,
        rir |-> rir_for_prefix(stats, p),
        bgp_origins |-> {r.asn : r \in {x \in Range(PerPrefix(routes_bgp, p)) :
                                           x.asn # NoAsn /\ x.asn # 0}},
        rpki_routes |-> Details(SelectSeq(irr_entries, Rpki)),
        irr_routes |-> [s \in sources |->
                          LET From(e) == HasAsnAndSource(e) /\ e.irr_source = s
                          IN Details(SelectSeq(irr_entries, From))]]

\* the orders in which "for prefix in all_prefixes" can visit a set
Orderings(S) ==
    IF S = {} THEN {<<>>}
    ELSE {o \in [1..Cardinality(S) -> S] :
             \A i, j \in DOMAIN o : o[i] = o[j] => i = j}

PrefixVisitsPerSource(routes_irrd, routes_bgp) ==
    {a \o b : a \in Orderings({r.prefix : r \in Range(routes_irrd)}),
              b \in Orderings({r.prefix : r \in Range(routes_bgp)})}

\* line 128: the prefixes of the set all_prefixes, each visited once
PrefixVisits(routes_irrd, routes_bgp) ==
    Orderings(all_prefixes(routes_irrd, routes_bgp))

collate_per_prefix(order, routes_irrd, routes_bgp, stats) ==
    [i \in DOMAIN order |-> Summary(order[i], routes_irrd, routes_bgp, stats)]

(***************************************************************************)
(* asn_summary, lines 62-68.  rpki_origins and irr_origins are the derived *)
(* sets of a PrefixSummary.                                                *)
(***************************************************************************)
rpki_origins(p) == {r.asn : r \in Range(p.rpki_routes)}

irr_origins(p) ==
    UNION {{r.asn : r \in Range(p.irr_routes[s])} : s \in DOMAIN p.irr_routes}

IsDirectOriginBgpOnly(asn, p) == asn \in p.bgp_origins

\* line 64
IsDirectOrigin(asn, p) ==
    asn \in p.bgp_origins \/ asn \in rpki_origins(p) \/ asn \in irr_origins(p)

ASNPrefixes(asn, prefix_summaries) ==
    LET Direct(p) == IsDirectOrigin(asn, p)
        Other(p) == ~ IsDirectOrigin(asn, p)
    IN [kind |-> "asn_prefixes",
        direct_origin |-> SelectSeq(prefix_summaries, Direct),
        overlaps |-> SelectSeq(prefix_summaries, Other)]

(***************************************************************************)
(* _execute_tasks, lines 285-291.  A task is "pending", "ok" or "failed".  *)
(***************************************************************************)
JoinOutcomeReturnExceptions(states) ==
    IF \E i \in DOMAIN states : states[i] = "pending" THEN "wait" ELSE "return"

\* what the awaiting method sees: the first exception is raised to it as
\* soon as a task fails (awaited in turn, or by asyncio.gather)
JoinOutcome(states) ==
    IF \E i \in DOMAIN states : states[i] = "failed" THEN "raise"
    ELSE IF \E i \in DOMAIN states : states[i] = "pending" THEN "wait"
    ELSE "return"

\* TESTING: "[await t for t in tasks]" runs the coroutines one after the
\* other; otherwise gather starts all of them
CanRun(i) == testing => \A j \in 1..(i - 1) : tasks[j] # "pending"

\* every coroutine created twice
IssueTwice(n) ==
    [a \in DOMAIN calls |->
        IF \E i \in 1..n : Adapters[i] = a THEN calls[a] + 2 ELSE calls[a]]

\* the first n adapters get one query coroutine each: lines 82-86, 105-108
Issue(n) ==
    [a \in DOMAIN calls |->
        IF \E i \in 1..n : Adapters[i] = a THEN calls[a] + 1 ELSE calls[a]]

PrefixTooLargeNever(p) == FALSE

\* line 50
PrefixTooLarge(p) == MINIMUM_PREFIX_SIZE(p.v) > p.len

\* lines 76-87: the three coroutines are created and handed to _execute_tasks
BeginCollect(search) ==
    /\ phase' = "collect"
    /\ searchPrefixes' = search
    /\ tasks' = <<"pending", "pending", "pending">>
    /\ results' = <<<<>>, <<>>, <<>>>>
    /\ calls' = Issue(3)
    /\ UNCHANGED <<rirstats, response>>

\* a method returns value
Return(value) ==
    /\ phase' = "done"
    /\ response' = value

\* prefix_summary(search_prefix) up to its first suspension, lines 47-53
PrefixSummary(search_prefix) ==
    /\ phase = "idle"
    /\ req' = [op |-> "prefix_summary", prefix |-> search_prefix, asn |-> 0]
    /\ IF PrefixTooLarge(search_prefix)
       THEN /\ Return([kind |-> "summaries", summaries |-> <<>>])
            /\ UNCHANGED <<tasks, results, searchPrefixes, rirstats, calls>>
       ELSE BeginCollect({search_prefix})
    /\ UNCHANGED <<cacheVars, expVars, qryVars, srcVars, testing, rirAnswer>>

\* asn_summary(asn) up to its first suspension: lines 58-59 and 105-109
AsnSummary(asn) ==
    /\ phase = "idle"
    /\ req' = [op |-> "asn_summary", prefix |-> NoPrefix, asn |-> asn]
    /\ phase' = "aggregate"
    /\ tasks' = <<"pending", "pending">>
    /\ results' = <<<<>>, <<>>>>
    /\ calls' = Issue(2)
    /\ UNCHANGED <<cacheVars, expVars, qryVars, srcVars, testing, searchPrefixes, rirstats, response, rirAnswer>>

\* lines 87-97 and then lines 54-55 or 61-68, once the three tasks are in
Collated(t, r) ==
    /\ tasks' = t
    /\ results' = r
    /\ rirstats' = r[3]
    /\ \E order \in PrefixVisits(r[1], r[2]) :
          LET prefix_summaries == collate_per_prefix(order, r[1], r[2], r[3])
          IN Return(IF req.op = "prefix_summary"
                    THEN [kind |-> "summaries", summaries |-> prefix_summaries]
                    ELSE ASNPrefixes(req.asn, prefix_summaries))
    /\ UNCHANGED <<searchPrefixes, calls>>

\* lines 109-116 and 60, once the two query_asn tasks are in
Aggregated(t, r) ==
    LET aggregates == AggregatePrefixesForAsn(r[1], r[2])
    IN IF aggregates = {}
       THEN \* lines 79-80: nothing is collected, the summaries are empty
            /\ Return(ASNPrefixes(req.asn, <<>>))
            /\ tasks' = t
            /\ results' = r
            /\ UNCHANGED <<searchPrefixes, rirstats, calls>>
       ELSE BeginCollect(aggregates)

\* task i of the running _execute_tasks ends: how == "ok" with result r, or
\* how == "failed" (r is <<>>)
TaskEnds(i, how, r) ==
    /\ phase \in {"aggregate", "collect"}
    /\ i \in DOMAIN tasks
    /\ tasks[i] = "pending"
    /\ CanRun(i)
    /\ LET t == [tasks EXCEPT ![i] = how]
           res == [results EXCEPT ![i] = r]
           outcome == JoinOutcome(t)
       IN CASE outcome = "wait" ->
                 /\ tasks' = t
                 /\ results' = res
                 /\ UNCHANGED <<phase, searchPrefixes, rirstats, response, calls>>
            [] outcome = "raise" ->
                 /\ tasks' = t
                 /\ results' = res
                 /\ phase' = "failed"
                 /\ response' = [kind |-> "error", source |-> Adapters[i]]
                 /\ UNCHANGED <<searchPrefixes, rirstats, calls>>
            [] OTHER ->
                 IF phase = "aggregate" THEN Aggregated(t, res) ELSE Collated(t, res)
    /\ UNCHANGED <<cacheVars, expVars, qryVars, srcVars, testing, req, rirAnswer>>

TaskReturns(i) ==
    /\ phase \in {"aggregate", "collect"}
    /\ \E r \in IF phase = "aggregate"
                THEN QueryAsnAnswers(Adapters[i], req.asn)
                ELSE QueryPrefixesAnyAnswers(Adapters[i], searchPrefixes) :
           TaskEnds(i, "ok", r)

TaskFails(i) == TaskEnds(i, "failed", <<>>)

SearchPrefixes == {P4_8, P4_10, P6_28, P6_29}

CollectorInit ==
    /\ RedisInit
    /\ ExpansionIdle
    /\ QueryIdle
    /\ SourcesIdle
    /\ redisConfigured = FALSE
    /\ testing \in BOOLEAN
    /\ PrefixCollectorInit

CollectorNext ==
    \/ \E p \in SearchPrefixes : PrefixSummary(p)
    \/ \E asn \in ASNs : AsnSummary(asn)
    \/ \E i \in 1..3 : TaskReturns(i)
    \/ \E i \in 1..3 : TaskFails(i)

SpecCollector == CollectorInit /\ [][CollectorNext]_vars


(***************************************************************************)
(* Set expansion: collect_set_expansion, collectors.py lines 214-282.      *)
(* A set name is a string, hence a sequence of characters.                 *)
(***************************************************************************)
SET_SIZE_LIMIT == 1000

max_iterations == 20

\* the characters of the names, in code point order
CodePoints == <<"-", "0", "1", "2", "3", "4", "5", "6", "7", "8", "9", ":",
                "A", "B", "C", "D", "E", "F", "G", "H", "I", "J", "K", "L", "M",
                "N", "O", "P", "Q", "R", "S", "T", "U", "V", "W", "X", "Y", "Z",
                "_">>

Ord(c) == CHOOSE i \in DOMAIN CodePoints : CodePoints[i] = c

RECURSIVE StrLess(_, _)
\* a < b for two Python strings
StrLess(a, b) ==
    IF b = <<>> THEN FALSE
    ELSE IF a = <<>> THEN TRUE
    ELSE IF Head(a) = Head(b) THEN StrLess(Tail(a), Tail(b))
    ELSE Ord(Head(a)) < Ord(Head(b))

\* str.isnumeric on the characters used here
IsNumeric(s) ==
    /\ s # <<>>
    /\ \A i \in DOMAIN s :
          s[i] \in {"0", "1", "2", "3", "4", "5", "6", "7", "8", "9"}

\* s[a:b] of Python, a and b counted from 0
Slice(s, a, b) ==
    IF a >= Len(s) THEN <<>>
    ELSE SubSeq(s, a + 1, IF b < Len(s) THEN b ELSE Len(s))

\* lines 215-216
is_set(set_name) ==
    \/ Slice(set_name, 0, 2) # <<"A", "S">>
    \/ ~ IsNumeric(Slice(set_name, 2, Len(set_name)))

\* xs in the order of a stable sort (sorted(), list.sort()); before holds the
\* pairs <<i, j>> of positions for which the key of xs[i] is less than the
\* key of xs[j]
SortedBy(xs, before) ==
    IF xs = <<>> THEN <<>> ELSE
    LET n == Len(xs)
        pos == [i \in 1..n |->
                   1 + Cardinality({j \in 1..n :
                           \/ <<j, i>> \in before
                           \/ j < i /\ <<i, j>> \notin before})]
    IN [p \in 1..n |-> xs[CHOOSE i \in 1..n : pos[i] = p]]

\* members is in ascending order already
InOrder(members) ==
    \A i \in 1..(Len(members) - 1) : ~ StrLess(members[i + 1], members[i])

\* line 263: sorted(members); a list in ascending order is its own sorted copy
SortedMembers(members) ==
    IF InOrder(members) THEN members
    ELSE SortedBy(members,
                  {ij \in (DOMAIN members) \X (DOMAIN members) :
                      StrLess(members[ij[1]], members[ij[2]])})

(***************************************************************************)
(* What IRRDQuery.query_set_members can answer: the objects the IRR holds, *)
(* as name -> sequence of [source, members] (one item per source that has  *)
(* the object, in the order of the answer).                                *)
(***************************************************************************)
MaxMembers == 2      \* members of one set object of the small graphs

AS_A == <<"A", "S", "-", "A">>

AS_B == <<"A", "S", "-", "B">>

RS_C == <<"R", "S", "-", "C">>

AS174 == <<"A", "S", "1", "7", "4">>

SmallSetNames == {AS_A, AS_B, RS_C}

\* the member lists of an object of the small graphs
MemberLists == DistinctSeqsUpTo(SmallSetNames \cup {AS174}, MaxMembers)

\* name -> <<>> (the IRR has no such object) or <<its member list in RADB>>;
\* RS-C holds at most one member
SmallGraphChoices ==
    {c \in [SmallSetNames -> {<<>>} \cup {<<m>> : m \in MemberLists}] :
        c[RS_C] # <<>> => Len(c[RS_C][1]) <= 1}

SmallGraphs ==
    {[n \in {x \in SmallSetNames : c[x] # <<>>} |->
         <<[source |-> "RADB", members |-> c[n][1]]>>] : c \in SmallGraphChoices}

\* AS-A is held by two sources, with the same member or with different ones
TwoSourceGraphs == {
    (AS_A :> <<[source |-> "RADB", members |-> <<AS_B>>],
               [source |-> "RIPE", members |-> <<AS_B>>]>>)
      @@ (AS_B :> <<[source |-> "RADB", members |-> <<AS174>>]>>),
    (AS_A :> <<[source |-> "RIPE", members |-> <<RS_C, AS_A>>],
               [source |-> "RADB", members |-> <<AS_B>>]>>)
      @@ (AS_B :> <<[source |-> "RIPE", members |-> <<RS_C>>]>>)
      @@ (RS_C :> <<[source |-> "RIPE", members |-> <<AS_A>>],
                    [source |-> "RADB", members |-> <<>>]>>) }

ChainName(i) == <<"A", "S", "-", "C">> \o DecStr(i)

\* AS-C1 holds AS-C2, which holds AS-C3, ...: more layers than max_iterations
ChainLength == max_iterations + 2

ChainGraph ==
    [n \in {ChainName(i) : i \in 1..ChainLength} |->
        LET i == CHOOSE k \in 1..ChainLength : ChainName(k) = n
        IN <<[source |-> "RADB",
              members |-> IF i < ChainLength THEN <<ChainName(i + 1)>> ELSE <<>>]>>]

\* AS-M0000, AS-M0001, ...
StarName(i) ==
    <<"A", "S", "-", "M", Digit(i \div 1000), Digit((i \div 100) % 10),
      Digit((i \div 10) % 10), Digit(i % 10)>>

\* AS-M0 holds more sets than SET_SIZE_LIMIT
StarGraph ==
    StarName(0) :>
        <<[source |-> "RADB",
           members |-> [i \in 1..(SET_SIZE_LIMIT + 1) |-> StarName(i)]]>>

\* the contents of the IRR and the name asked for
ExpansionInputs ==
    {[irr |-> g, name |-> AS_A] : g \in SmallGraphs \cup TwoSourceGraphs}
      \cup {[irr |-> ChainGraph, name |-> ChainName(1)],
            [irr |-> ChainGraph, name |-> ChainName(ChainLength - 1)],
            [irr |-> StarGraph, name |-> StarName(0)]}

(***************************************************************************)
(* traverse_tree, lines 248-270.  resolved maps a name to its sequence of  *)
(* [source, members] items; results is the list built so far.             *)
(***************************************************************************)
\* line 253
OnPath(stub_name, path) == \E i \in DOMAIN path : path[i] = stub_name

ExtendPathInFront(path, stub_name) == <<stub_name>> \o path

\* line 255
ExtendPath(path, stub_name) == path \o <<stub_name>>

AppendAlways(results_, result) == Append(results_, result)

\* lines 265-266
AppendIfNew(results_, result) ==
    IF \E i \in DOMAIN results_ : results_[i] = result
    THEN results_
    ELSE Append(results_, result)

RECURSIVE EmitExpansions(_, _, _, _, _)
\* lines 257-266, over the items that are left
EmitExpansions(items, stub_name, depth, path, results_) ==
    IF items = <<>> THEN results_
    ELSE EmitExpansions(Tail(items), stub_name, depth, path,
            AppendIfNew(results_,
                [name |-> stub_name,
                 source |-> Head(items).source,
                 depth |-> depth,
                 path |-> path,
                 members |-> SortedMembers(Head(items).members)]))

RECURSIVE SubMembers(_)
\* the sub_member values of lines 267-268, in the order they are visited
SubMembers(items) ==
    IF items = <<>> THEN <<>> ELSE Head(items).members \o SubMembers(Tail(items))

\* lines 251-270, one call of traverse_tree.  walk.pending holds the calls that
\* are still to be made, as [stub_name, depth, path], the next one first; the
\* calls of lines 267-270 come in front of the ones the callers still have to
\* make.  walk.results is the list results.
Visit(resolved_, walk) ==
    LET call == Head(walk.pending)
    IN IF OnPath(call.stub_name, call.path)
       THEN [pending |-> Tail(walk.pending), results |-> walk.results]
       ELSE LET path1 == ExtendPath(call.path, call.stub_name)
                depth1 == call.depth + 1
                Resolved(m) == m \in DOMAIN resolved_
                subs == SelectSeq(SubMembers(resolved_[call.stub_name]), Resolved)
            IN [pending |->
                    [i \in DOMAIN subs |->
                        [stub_name |-> subs[i], depth |-> depth1, path |-> path1]]
                      \o Tail(walk.pending),
                results |->
                    EmitExpansions(resolved_[call.stub_name], call.stub_name,
                                   depth1, path1, walk.results)]

RECURSIVE traverse_tree(_, _)
\* lines 248-270: every call is made, the list results is what is left
traverse_tree(resolved_, walk) ==
    IF walk.pending = <<>> THEN walk.results
    ELSE traverse_tree(resolved_, Visit(resolved_, walk))

SortKeyDepthOnly(a, b) == a.depth < b.depth

\* line 273: key=lambda item: (item.depth, item.name)
SortKeyBefore(a, b) ==
    \/ a.depth < b.depth
    \/ a.depth = b.depth /\ StrLess(a.name, b.name)

\* lines 272-274
Expansions(resolved_, name) ==
    LET results_ ==
            traverse_tree(resolved_,
                [pending |-> <<[stub_name |-> name, depth |-> 0, path |-> <<>>]>>,
                 results |-> <<>>])
    IN SortedBy(results_,
                {ij \in (DOMAIN results_) \X (DOMAIN results_) :
                    SortKeyBefore(results_[ij[1]], results_[ij[2]])})

(***************************************************************************)
(* collect_set_expansion as a state machine.  expPc is "idle" before the   *)
(* call, "await" while query_set_members is awaited (line 235), "done"     *)
(* after the return and "failed" when an exception leaves the function.    *)
(***************************************************************************)
LoopContinuesUncapped(todo, depth) == todo # {}

\* line 226
LoopContinues(todo, depth) == todo # {} /\ depth < max_iterations

\* line 232
SizeLimitReached(todo, resolved_) ==
    Cardinality(todo) > SET_SIZE_LIMIT \/ Cardinality(DOMAIN resolved_) > SET_SIZE_LIMIT

OnTimeoutPartial(resolved_, name) == Expansions(resolved_, name)

\* lines 280-282
OnTimeout(resolved_, name) == <<>>

FinishEmptyWhenCapped(resolved_, todo, depth, why) ==
    /\ resolved' = resolved_
    /\ to_resolve' = todo
    /\ tree_depth' = depth
    /\ expResult' = IF why \in {"depth", "size"} THEN <<>>
                     ELSE Expansions(resolved_, expName)
    /\ expPc' = "done"
    /\ stop' = why
    /\ UNCHANGED queries

\* lines 246-274: the loop is left, stop says why
Finish(resolved_, todo, depth, why) ==
    /\ resolved' = resolved_
    /\ to_resolve' = todo
    /\ tree_depth' = depth
    /\ expResult' = Expansions(resolved_, expName)
    /\ expPc' = "done"
    /\ stop' = why
    /\ UNCHANGED queries

\* lines 226-235: from the loop test to the next query_set_members call
LoopHead(resolved_, todo, depth) ==
    IF LoopContinues(todo, depth)
    THEN IF SizeLimitReached(todo, resolved_)
         THEN Finish(resolved_, todo, depth + 1, "size")
         ELSE /\ resolved' = resolved_
              /\ to_resolve' = todo
              /\ tree_depth' = depth + 1
              /\ expPc' = "await"
              /\ queries' = queries + 1
              /\ UNCHANGED <<expResult, stop>>
    ELSE Finish(resolved_, todo, depth, IF todo # {} THEN "depth" ELSE "exhausted")

\* lines 219-235
CollectSetExpansion ==
    /\ expPc = "idle"
    /\ LoopHead(expName :> <<>>, {expName}, 0)
    /\ UNCHANGED <<cacheVars, collVars, qryVars, srcVars, irr, expName>>

\* lines 235-244 and the next round of the loop
QueryReturns ==
    /\ expPc = "await"
    /\ LET step_result == [n \in to_resolve \cap DOMAIN irr |-> irr[n]]
           updated == step_result @@ resolved
           members == UNION {UNION {Range(step_result[n][i].members) :
                                       i \in DOMAIN step_result[n]} :
                                n \in DOMAIN step_result}
           found == {m \in members : is_set(m) /\ m \notin to_resolve}
       IN LoopHead(updated, found \ DOMAIN updated, tree_depth)
    /\ UNCHANGED <<cacheVars, collVars, qryVars, srcVars, irr, expName>>

\* query_set_members raises: nothing in collect_set_expansion catches it
QueryRaises ==
    /\ expPc = "await"
    /\ expPc' = "failed"
    /\ stop' = "error"
    /\ UNCHANGED <<cacheVars, collVars, qryVars, srcVars, irr, expName, resolved, to_resolve,
                   tree_depth, expResult, queries>>

\* lines 276-282: wait_for cancels the pending await after
\* SET_EXPANSION_TIMEOUT seconds
ExpansionTimeout ==
    /\ expPc = "await"
    /\ expResult' = OnTimeout(resolved, expName)
    /\ expPc' = "done"
    /\ stop' = "timeout"
    /\ UNCHANGED <<cacheVars, collVars, qryVars, srcVars, irr, expName, resolved, to_resolve,
                   tree_depth, queries>>

ExpansionInit ==
    /\ RedisInit
    /\ QueryIdle
    /\ SourcesIdle
    /\ redisConfigured = FALSE
    /\ testing = FALSE
    /\ PrefixCollectorInit
    /\ \E in \in ExpansionInputs : irr = in.irr /\ expName = in.name
    /\ resolved = <<>>
    /\ to_resolve = {}
    /\ tree_depth = 0
    /\ expPc = "idle"
    /\ expResult = <<>>
    /\ queries = 0
    /\ stop = "none"

ExpansionNext ==
    \/ CollectSetExpansion
    \/ QueryReturns
    \/ QueryRaises
    \/ ExpansionTimeout

SpecExpansion == ExpansionInit /\ [][ExpansionNext]_vars

(***************************************************************************)
(* Claims about the collector, checked under SpecCollector.                *)
(***************************************************************************)
Done(op) == phase = "done" /\ req.op = op

\* the prefixes the IRR and BGP adapters reported to the finished request
Reported == IF Len(tasks) = 3 THEN all_prefixes(results[1], results[2]) ELSE {}

\* C6: if any source-adapter call of prefix_summary or asn_summary fails, the
\* method fails with an error and returns no summaries built from the sources
\* that did answer, whether the tasks run one after the other or concurrently.
C6_SourceFailureFailsRequest ==
    /\ (\E i \in DOMAIN tasks : tasks[i] = "failed") =>
          /\ phase = "failed"
          /\ response.kind = "error"
    /\ phase = "done" =>
          /\ response.kind \in {"summaries", "asn_prefixes"}
          /\ \A i \in DOMAIN tasks : tasks[i] = "ok"

\* concurrently, two sources have answered with data when the third fails
C6_Witness ==
    /\ ~ testing
    /\ phase = "failed"
    /\ response.kind = "error"
    /\ tasks = <<"failed", "ok", "ok">>
    /\ results[2] # <<>>
    /\ results[3] # <<>>

\* C9: asn_summary(A) puts a collated summary in direct_origin iff A is in its
\* bgp_origins, rpki_origins or irr_origins, and in overlaps otherwise; every
\* summary is in exactly one of the two lists.
C9_Partition ==
    Done("asn_summary") =>
        LET direct == response.direct_origin
            other == response.overlaps
            Origins(p) == p.bgp_origins \cup rpki_origins(p) \cup irr_origins(p)
            collated == {Summary(p, results[1], results[2], rirstats) : p \in Reported}
        IN /\ \A i \in DOMAIN direct : req.asn \in Origins(direct[i])
           /\ \A i \in DOMAIN other : req.asn \notin Origins(other[i])
           /\ Range(direct) \cap Range(other) = {}
           /\ Range(direct) \cup Range(other) = collated
           /\ Len(direct) + Len(other) = Cardinality(collated)

\* both lists are filled, and a summary is a direct origin through its IRR or
\* RPKI routes only
C9_Witness ==
    /\ Done("asn_summary")
    /\ response.overlaps # <<>>
    /\ \E i \in DOMAIN response.direct_origin :
          req.asn \notin response.direct_origin[i].bgp_origins

ReturnedSummaries ==
    CASE response.kind = "summaries" -> response.summaries
      [] response.kind = "asn_prefixes" ->
           response.direct_origin \o response.overlaps
      [] OTHER -> <<>>

\* the routes the IRR adapter reported for the prefix p to the finished request
ReportedIrr(p) ==
    IF Len(tasks) = 3 THEN {r \in Range(results[1]) : r.prefix = p} ELSE {}

\* C11: no two PrefixSummary records of a prefix_summary or asn_summary result
\* have the same prefix, also when the IRR and the BGP adapter both report a
\* prefix or report it several times.
C11_UniquePrefixes ==
    phase = "done" =>
        \A i, j \in DOMAIN ReturnedSummaries :
            ReturnedSummaries[i].prefix = ReturnedSummaries[j].prefix => i = j

\* a prefix that the IRR adapter and the BGP adapter each reported twice
C11_Witness ==
    /\ phase = "done"
    /\ Len(tasks) = 3
    /\ \E p \in Reported :
          /\ Cardinality({i \in DOMAIN results[1] : results[1][i].prefix = p}) >= 2
          /\ Cardinality({i \in DOMAIN results[2] : results[2][i].prefix = p}) >= 2
          /\ \E i \in DOMAIN ReturnedSummaries : ReturnedSummaries[i].prefix = p

Ascending(routes) ==
    \A i, j \in DOMAIN routes : i < j => routes[i].asn <= routes[j].asn

\* C12: in every PrefixSummary the records of each irr_routes[source] list and
\* of rpki_routes are in ascending order of asn, whatever the order in which
\* the IRR adapter returned them.
C12_AscendingAsn ==
    phase = "done" =>
        \A i \in DOMAIN ReturnedSummaries :
            /\ Ascending(ReturnedSummaries[i].rpki_routes)
            /\ \A s \in DOMAIN ReturnedSummaries[i].irr_routes :
                  Ascending(ReturnedSummaries[i].irr_routes[s])

\* the adapter returned two records of one bucket with the larger asn first
C12_Witness ==
    /\ phase = "done"
    /\ Len(tasks) = 3
    /\ \E i, j \in DOMAIN results[1] :
          /\ i < j
          /\ results[1][i].prefix = results[1][j].prefix
          /\ results[1][i].irr_source = results[1][j].irr_source
          /\ results[1][j].asn # NoAsn
          /\ results[1][i].asn > results[1][j].asn
    /\ \E i \in DOMAIN ReturnedSummaries :
          \/ Len(ReturnedSummaries[i].rpki_routes) >= 2
          \/ \E s \in DOMAIN ReturnedSummaries[i].irr_routes :
                Len(ReturnedSummaries[i].irr_routes[s]) >= 2

\* how often the record r is in the list routes
Times(r, routes) ==
    Cardinality({i \in DOMAIN routes :
                    routes[i].asn = r.asn /\ routes[i].rpsl_pk = r.rpsl_pk})

\* C13: an IRR record with an asn and an irr_source is in exactly one bucket of
\* its prefix's summary, rpki_routes iff its irr_source is "RPKI" and
\* irr_routes[irr_source] otherwise, so irr_routes has no key "RPKI"; a record
\* without asn or without irr_source is in no bucket, and the request goes on.
C13_OneBucketPerRecord ==
    phase = "done" =>
        \A i \in DOMAIN ReturnedSummaries :
            LET s == ReturnedSummaries[i]
                complete == {r \in ReportedIrr(s.prefix) :
                                r.asn # NoAsn /\ r.irr_source # ""}
            IN /\ "RPKI" \notin DOMAIN s.irr_routes
               /\ \A r \in ReportedIrr(s.prefix) :
                     /\ Times(r, s.rpki_routes) =
                           IF r \in complete /\ r.irr_source = "RPKI" THEN 1 ELSE 0
                     /\ \A src \in DOMAIN s.irr_routes :
                           Times(r, s.irr_routes[src]) =
                               IF /\ r \in complete
                                  /\ r.irr_source # "RPKI"
                                  /\ r.irr_source = src
                               THEN 1 ELSE 0
                     /\ (r \in complete /\ r.irr_source # "RPKI") =>
                           r.irr_source \in DOMAIN s.irr_routes
               /\ Len(s.rpki_routes) =
                     Cardinality({r \in complete : r.irr_source = "RPKI"})
               /\ \A src \in DOMAIN s.irr_routes :
                     Len(s.irr_routes[src]) =
                         Cardinality({r \in complete : r.irr_source = src})

\* a summary built from an RPKI record and a record that was dropped
C13_Witness ==
    /\ phase = "done"
    /\ \E i \in DOMAIN ReturnedSummaries :
          /\ Len(ReturnedSummaries[i].rpki_routes) = 1
          /\ \E r \in ReportedIrr(ReturnedSummaries[i].prefix) : r.asn = NoAsn


(***************************************************************************)
(* Claims about set expansion, checked under SpecExpansion.                *)
(***************************************************************************)
\* collect_set_expansion has returned
Returned == expPc = "done"

NoRepeat(path) == \A a, b \in DOMAIN path : path[a] = path[b] => a = b

\* the set object r is about lists a name further up r's own path as a member
ClosesCycle(r) ==
    /\ r.name \in DOMAIN irr
    /\ \E i \in DOMAIN irr[r.name] :
          \E k \in 1..(Len(r.path) - 1) :
              r.path[k] # r.name /\ r.path[k] \in Range(irr[r.name][i].members)

\* C14: no returned SetExpansion has a path that holds the same set name
\* twice, and the last element of each path is the record's own name.
C14_PathsAreSimple ==
    Returned =>
        \A i \in DOMAIN expResult :
            /\ NoRepeat(expResult[i].path)
            /\ expResult[i].path # <<>>
            /\ expResult[i].path[Len(expResult[i].path)] = expResult[i].name

\* a record two layers down whose set leads back into its own path
C14_Witness ==
    /\ Returned
    /\ \E i \in DOMAIN expResult :
          /\ Len(expResult[i].path) >= 3
          /\ ClosesCycle(expResult[i])

\* the set asked for lists itself as a member
DirectCycle ==
    /\ expName \in DOMAIN irr
    /\ \E i \in DOMAIN irr[expName] : expName \in Range(irr[expName][i].members)

\* C15 as stated: the result holds one record per (name, source) pair, however
\* many paths lead from the root to the set.
C15_OnePerNameAndSource ==
    Returned =>
        \A i, j \in DOMAIN expResult :
            (/\ expResult[i].name = expResult[j].name
             /\ expResult[i].source = expResult[j].source) => i = j

\* C15 as the code has it: the result holds one record per (name, source, path),
\* and the set asked for is reported under the path that holds only its own
\* name, once per source, a direct cycle included.
C15_OnePerNameSourceAndPath ==
    Returned =>
        /\ \A i, j \in DOMAIN expResult :
               (/\ expResult[i].name = expResult[j].name
                /\ expResult[i].source = expResult[j].source
                /\ expResult[i].path = expResult[j].path) => i = j
        /\ \A i \in DOMAIN expResult :
               expResult[i].name = expName => expResult[i].path = <<expName>>

\* a direct cycle at the root, and a set reported under two paths
C15_Witness ==
    /\ Returned
    /\ DirectCycle
    /\ \E i \in DOMAIN expResult : expResult[i].name = expName
    /\ \E i, j \in DOMAIN expResult :
          /\ expResult[i].name = expResult[j].name
          /\ expResult[i].source = expResult[j].source
          /\ expResult[i].path # expResult[j].path

\* (a.depth, a.name) <= (b.depth, b.name)
KeyAtMost(a, b) ==
    \/ a.depth < b.depth
    \/ a.depth = b.depth /\ ~ StrLess(b.name, a.name)

\* m1 comes before m2 in a member list of the set asked for
ListedBefore(m1, m2) ==
    /\ expName \in DOMAIN irr
    /\ \E i \in DOMAIN irr[expName] :
          \E a, b \in DOMAIN irr[expName][i].members :
              /\ a < b
              /\ irr[expName][i].members[a] = m1
              /\ irr[expName][i].members[b] = m2

\* C16: the returned list is in (depth ascending, name ascending) order.
C16_OrderedByDepthAndName ==
    Returned =>
        \A i \in 1..(Len(expResult) - 1) : KeyAtMost(expResult[i], expResult[i + 1])

\* two sets of the second layer are returned in name order although the
\* member list that leads to them has them the other way round
C16_Witness ==
    /\ Returned
    /\ \E i \in 1..(Len(expResult) - 1) :
          /\ expResult[i].depth = 2
          /\ expResult[i + 1].depth = 2
          /\ StrLess(expResult[i].name, expResult[i + 1].name)
          /\ ListedBefore(expResult[i + 1].name, expResult[i].name)

\* C17: the resolution phase issues at most 20 (max_iterations) batched
\* query_set_members calls, whatever the membership graph.
C17_AtMostTwentyQueries ==
    /\ queries <= max_iterations
    /\ tree_depth <= max_iterations
    /\ expPc = "await" => tree_depth = queries

\* the twentieth query has returned with sets still to resolve, and
\* collect_set_expansion has returned
C17_Witness ==
    /\ Returned
    /\ queries = max_iterations
    /\ to_resolve # {}
    /\ stop = "depth"

\* the loop was left at the depth cap (line 226) or the size cap (line 232)
Capped == Returned /\ stop \in {"depth", "size"}

\* the result has a record for the set n, held by source, under path
Emitted(n, source, path) ==
    \E i \in DOMAIN expResult :
        /\ expResult[i].name = n
        /\ expResult[i].source = source
        /\ expResult[i].path = path
        /\ expResult[i].depth = Len(path)

C19_TimeoutReturnsEmpty ==
    stop = "timeout" => (expPc = "done" /\ expResult = <<>>)

\* the deadline expired in the second lookup or later, with the set asked
\* for already resolved
C19_Witness ==
    /\ stop = "timeout"
    /\ Returned
    /\ tree_depth >= 2
    /\ resolved[expName] # <<>>

(***************************************************************************)
(* The query classifier: Query.__init__, queries.py lines 69-110.  A       *)
(* string is a sequence of one-character strings.                          *)
(***************************************************************************)
MAX_QUERY_LENGTH == 255

LowerLetters == <<"a", "b", "c", "d", "e", "f", "g", "h", "i", "j", "k", "l", "m",
                  "n", "o", "p", "q", "r", "s", "t", "u", "v", "w", "x", "y", "z">>

UpperLetters == <<"A", "B", "C", "D", "E", "F", "G", "H", "I", "J", "K", "L", "M",
                  "N", "O", "P", "Q", "R", "S", "T", "U", "V", "W", "X", "Y", "Z">>

Digits == {"0", "1", "2", "3", "4", "5", "6", "7", "8", "9"}

HexDigits == <<"0", "1", "2", "3", "4", "5", "6", "7", "8", "9",
               "a", "b", "c", "d", "e", "f">>

IsLetter(c) == c \in Range(LowerLetters) \cup Range(UpperLetters)

\* c.upper() and c.lower()
UpperChar(c) ==
    IF c \in Range(LowerLetters)
    THEN UpperLetters[CHOOSE i \in DOMAIN LowerLetters : LowerLetters[i] = c]
    ELSE c

LowerChar(c) ==
    IF c \in Range(UpperLetters)
    THEN LowerLetters[CHOOSE i \in DOMAIN UpperLetters : UpperLetters[i] = c]
    ELSE c

\* s.upper()
Upper(s) == [i \in DOMAIN s |-> UpperChar(s[i])]

\* s.strip(): the whitespace here is the blank
Strip(s) ==
    LET solid == {i \in DOMAIN s : s[i] # " "}
    IN IF solid = {} THEN <<>>
       ELSE SubSeq(s, SetMin(solid), CHOOSE i \in solid : \A j \in solid : j <= i)

\* s.startswith(lit)
StartsWith(s, lit) == OccursAt(s, lit, 1)

\* lit in s
HasSubstring(s, lit) == FindFrom(s, lit, 1) # 0

\* the decimal digits of s without leading zeros
WithoutLeadingZeros(s) ==
    LET nonzero == {i \in DOMAIN s : s[i] # "0"}
    IN IF nonzero = {} THEN <<"0">> ELSE SubSeq(s, SetMin(nonzero), Len(s))

NoInt == [ok |-> FALSE, negative |-> FALSE, digits |-> <<>>]

\* int(s): blanks around, one optional sign, decimal digits; the value is
\* kept as its sign and its digits, so that no width limits it
PythonInt(s) ==
    LET t == Strip(s)
        signed == t # <<>> /\ t[1] \in {"+", "-"}
        body == IF signed THEN Tail(t) ELSE t
    IN IF IsNumeric(body)
       THEN [ok |-> TRUE,
             negative |-> signed /\ t[1] = "-" /\ WithoutLeadingZeros(body) # <<"0">>,
             digits |-> WithoutLeadingZeros(body)]
       ELSE NoInt

\* str(n) of an int
IntStr(n) == IF n.negative THEN <<"-">> \o n.digits ELSE n.digits

\* the value of a string of at most three decimal digits
SmallValue(s) ==
    LET d(i) == CHOOSE k \in 0..9 : Digit(k) = s[i]
    IN IF Len(s) = 1 THEN d(1)
       ELSE IF Len(s) = 2 THEN 10 * d(1) + d(2)
       ELSE 100 * d(1) + 10 * d(2) + d(3)

\* the parts of s between the occurrences of the character sep: s.split(sep)
Split(s, sep) ==
    LET cuts == {i \in DOMAIN s : s[i] = sep}
        n == Cardinality(cuts)
        cut(k) == IF k = 0 THEN 0
                  ELSE IF k = n + 1 THEN Len(s) + 1
                  ELSE CHOOSE i \in cuts : Cardinality({j \in cuts : j < i}) = k - 1
    IN [k \in 1..(n + 1) |-> SubSeq(s, cut(k - 1) + 1, cut(k) - 1)]

\* RE_RPSL_NAME.match(s), line 25: ^[A-Z][A-Z0-9_:-]*[A-Z0-9]$ with IGNORECASE
RE_RPSL_NAME(s) ==
    /\ Len(s) >= 2
    /\ IsLetter(s[1])
    /\ IsLetter(s[Len(s)]) \/ s[Len(s)] \in Digits
    /\ \A i \in 2..(Len(s) - 1) :
          IsLetter(s[i]) \/ s[i] \in Digits \/ s[i] \in {"_", ":", "-"}

(***************************************************************************)
(* IPy.IP(raw_query, make_net=True) and str(prefix), lines 90-91, for the  *)
(* notations address and address/prefixlen, the address a dotted IPv4      *)
(* address or an IPv6 address in groups of hexadecimal digits.  IPy's      *)
(* other notations (first-last ranges, netmasks, a bare integer, 0x...,    *)
(* an embedded IPv4 address) need a character or a shape that the queries  *)
(* of QueryInputs and their cleaned values never have.                     *)
(***************************************************************************)
NoIP == [ok |-> FALSE, v |-> 0, prefixlen |-> 0, text |-> <<>>]

\* a character that a string must not have to be parsed here: parseAddress
\* takes no letter beyond f, and the blank, the sign and the underscore only
\* appear in notations left out
OnlyAddressChars(s) ==
    \A i \in DOMAIN s :
        LowerChar(s[i]) \in Range(HexDigits) \/ s[i] \in {".", ":", "/"}

RECURSIVE Join(_, _)
\* sep.join(strs)
Join(strs, sep) ==
    IF strs = <<>> THEN <<>>
    ELSE IF Len(strs) = 1 THEN strs[1]
    ELSE strs[1] \o <<sep>> \o Join(Tail(strs), sep)

\* int(x) of a part of a dotted address or of a prefix length: -1 when x is
\* no number or is larger than 999
PartValue(x) ==
    IF IsNumeric(x) /\ Len(WithoutLeadingZeros(x)) <= 3
    THEN SmallValue(WithoutLeadingZeros(x))
    ELSE -1

\* int(x, 16) of a group of an IPv6 address: -1 when x is no group
GroupValue(x) ==
    IF Len(x) \in 1..4 /\ \A i \in DOMAIN x : LowerChar(x[i]) \in Range(HexDigits)
    THEN LET d(i) == (CHOOSE k \in DOMAIN HexDigits : HexDigits[k] = LowerChar(x[i])) - 1
             n == Len(x)
             term(i) == IF i <= n THEN d(i) * Pow2(4 * (n - i)) ELSE 0
         IN term(1) + term(2) + term(3) + term(4)
    ELSE -1

\* '%x' % h
HexStr(h) ==
    WithoutLeadingZeros(<<HexDigits[(h \div 4096) + 1],
                          HexDigits[((h \div 256) % 16) + 1],
                          HexDigits[((h \div 16) % 16) + 1],
                          HexDigits[(h % 16) + 1]>>)

\* parseAddress for a dotted address: the bytes, <<>> when there is none
ParseIPv4(ip) ==
    LET parts == Split(ip, ".")
        bytes == [i \in 1..4 |-> IF i <= Len(parts) THEN PartValue(parts[i]) ELSE 0]
    IN IF Len(parts) <= 4 /\ \A i \in 1..4 : bytes[i] \in 0..255
       THEN bytes ELSE <<>>

\* _parseAddressIPv6: the eight groups, <<>> when there are none
ParseIPv6(ip) ==
    LET gap == FindFrom(ip, <<":", ":">>, 1)
        groups(part) == IF part = <<>> THEN <<>> ELSE Split(part, ":")
        left == IF gap = 0 THEN groups(ip) ELSE groups(SubSeq(ip, 1, gap - 1))
        right == IF gap = 0 THEN <<>> ELSE groups(SubSeq(ip, gap + 2, Len(ip)))
        fill == 8 - Len(left) - Len(right)
        hextets == [i \in 1..8 |->
                       IF i <= Len(left) THEN GroupValue(left[i])
                       ELSE IF i <= Len(left) + fill THEN 0
                       ELSE GroupValue(right[i - Len(left) - fill])]
    IN IF /\ (gap = 0 => fill = 0)
          /\ (gap # 0 => fill >= 1 /\ FindFrom(ip, <<":", ":">>, gap + 1) = 0)
          /\ \A i \in DOMAIN left : GroupValue(left[i]) >= 0
          /\ \A i \in DOMAIN right : GroupValue(right[i]) >= 0
       THEN hextets ELSE <<>>

\* make_net: self.ip & _prefixlenToNetmask(prefixlen), on units of width bits
MakeNet(units, width, prefixlen) ==
    [i \in DOMAIN units |->
        LET kept == IF prefixlen >= width * i THEN width
                    ELSE IF prefixlen <= width * (i - 1) THEN 0
                    ELSE prefixlen - width * (i - 1)
        IN units[i] - (units[i] % Pow2(width - kept))]

\* _printPrefix: a single address is printed without its prefix length
PrintPrefix(bits, prefixlen) ==
    IF prefixlen = bits THEN <<>> ELSE <<"/">> \o DecStr(prefixlen)

\* strCompressed of an IPv6 address: the first longest run of two or more
\* zero groups becomes "::"
StrCompressed(hextets) ==
    LET followingzeros ==
            [i \in 1..8 |->
                Cardinality({n \in 1..(9 - i) :
                    \A k \in i..(i + n - 1) : hextets[k] = 0})]
        longest == CHOOSE n \in 0..8 :
                       /\ \E i \in 1..8 : followingzeros[i] = n
                       /\ \A i \in 1..8 : followingzeros[i] <= n
        compressionpos == SetMin({i \in 1..8 : followingzeros[i] = longest})
        strs == [i \in 1..8 |-> HexStr(hextets[i])]
    IN IF longest > 1
       THEN Join(SubSeq(strs, 1, compressionpos - 1), ":")
              \o <<":", ":">>
              \o Join(SubSeq(strs, compressionpos + longest, 8), ":")
       ELSE Join(strs, ":")

\* IPy.IP(s, make_net=True) with its str(): ok is FALSE for a ValueError
IPy_IP(s) ==
    LET parts == Split(s, "/")
        ip == parts[1]
        v == IF \E i \in DOMAIN ip : ip[i] = ":" THEN 6 ELSE 4
        bits == IF v = 6 THEN 128 ELSE 32
        prefixlen == IF Len(parts) = 2 THEN PartValue(parts[2]) ELSE bits
        units == IF v = 6 THEN ParseIPv6(ip)
                 ELSE IF \E i \in DOMAIN ip : ip[i] = "." THEN ParseIPv4(ip)
                 ELSE <<>>
    IN IF /\ OnlyAddressChars(s)
          /\ Len(parts) <= 2
          /\ units # <<>>
          /\ prefixlen \in 0..bits
       THEN [ok |-> TRUE, v |-> v, prefixlen |-> prefixlen,
             text |-> (IF v = 6
                       THEN StrCompressed(MakeNet(units, 16, prefixlen))
                       ELSE Join([i \in 1..4 |->
                                     DecStr(MakeNet(units, 8, prefixlen)[i])], "."))
                      \o PrintPrefix(bits, prefixlen)]
       ELSE NoIP

(***************************************************************************)
(* Query.__init__, lines 69-110.  The outcome of a call is the Query       *)
(* object (category, cleaned_value) or the InvalidQueryError raised.       *)
(***************************************************************************)
NoQuery == [outcome |-> "none", category |-> "", cleaned_value |-> <<>>,
            error |-> "", floor |-> 0]

Accepted(category, cleaned_value) ==
    [outcome |-> "ok", category |-> category, cleaned_value |-> cleaned_value,
     error |-> "", floor |-> 0]

\* raise InvalidQueryError(error); floor is the minimum length the message names
InvalidQueryError(error, floor) ==
    [outcome |-> "InvalidQueryError", category |-> "", cleaned_value |-> <<>>,
     error |-> error, floor |-> floor]

\* lines 79-81 without the exclusion of "AS-"
IsAsnAnyAs(raw_query) == StartsWith(Upper(raw_query), <<"A", "S">>)

\* lines 79-81
IsAsn(raw_query) ==
    /\ StartsWith(Upper(raw_query), <<"A", "S">>)
    /\ ~ StartsWith(Upper(raw_query), <<"A", "S", "-">>)

\* lines 93-94 comparing with one less than the minimum
QueryTooLargeBelow(prefix) == MINIMUM_PREFIX_SIZE(prefix.v) > prefix.prefixlen + 1

\* lines 93-94: minimum_length > prefix.prefixlen()
QueryTooLarge(prefix) == MINIMUM_PREFIX_SIZE(prefix.v) > prefix.prefixlen

\* lines 103-107
SetCategory(cleaned_value) ==
    IF \/ StartsWith(cleaned_value, <<"R", "S", "-">>)
       \/ HasSubstring(cleaned_value, <<":", "R", "S", "-">>)
    THEN "route-set" ELSE "as-set"

Query(raw) ==
    LET raw_query == Strip(raw)
        trimmed == IF IsAsn(raw_query) THEN SubSeq(raw_query, 3, Len(raw_query))
                   ELSE raw_query
        asn == PythonInt(trimmed)
        parsed == IPy_IP(raw_query)
    IN IF Len(raw_query) > MAX_QUERY_LENGTH
       THEN InvalidQueryError("Query too long", MAX_QUERY_LENGTH)
       ELSE IF asn.ok
       THEN Accepted("asn", <<"A", "S">> \o IntStr(asn))
       ELSE IF parsed.ok
       THEN IF QueryTooLarge(parsed)
            THEN InvalidQueryError("Query too large", MINIMUM_PREFIX_SIZE(parsed.v))
            ELSE Accepted("prefix", parsed.text)
       ELSE IF RE_RPSL_NAME(raw_query)
       THEN Accepted(SetCategory(Upper(raw_query)), Upper(raw_query))
       ELSE InvalidQueryError("Not a valid prefix, IP, ASN or AS-set.", 0)

(***************************************************************************)
(* The queries given to the classifier.                                    *)
(***************************************************************************)
MaxTokens == 3       \* pieces of a query made of name and number pieces
MaxResubmits == 1    \* times a cleaned value is given to the classifier again

NameTokens == {<<"A", "S">>, <<"a", "s">>, <<"R", "S">>, <<":", "R", "S", "-">>,
               <<"X">>, <<"-">>, <<"+">>, <<"5">>, <<"0">>, <<" ">>}

RECURSIVE Concat(_)
Concat(tokens) == IF tokens = <<>> THEN <<>> ELSE Head(tokens) \o Concat(Tail(tokens))

\* queries with a letter beyond f, and numbers
NameQueries ==
    {q \in {Concat(t) : t \in SeqsUpTo(NameTokens, MaxTokens)} :
        \/ \E i \in DOMAIN q : IsLetter(q[i]) /\ LowerChar(q[i]) \notin Range(HexDigits)
        \/ PythonInt(q).ok}

V4Addresses == {<<10, 0, 0, 0>>, <<10, 64, 0, 0>>, <<10, 200, 0, 1>>}

V4Lengths == {<<>>, <<"/", "8">>, <<"/", "9">>, <<"/", "1", "0">>, <<"/", "3", "2">>}

V6Addresses == {<<"2", "0", "0", "1", ":", "d", "b", "8", ":", ":">>,
                <<"2", "0", "0", "1", ":", "D", "B", "8", ":", "0", ":", "8", ":", ":">>,
                <<"2", "0", "0", "1", ":", "d", "b", "8", ":", ":", "1">>}

V6Lengths == {<<>>, <<"/", "2", "8">>, <<"/", "2", "9">>, <<"/", "4", "8">>,
              <<"/", "1", "2", "8">>}

Blanks == {<<>>, <<" ">>}

PrefixQueries ==
    {b1 \o Join([i \in 1..4 |-> DecStr(a[i])], ".") \o l \o b2 :
        b1 \in Blanks, a \in V4Addresses, l \in V4Lengths, b2 \in Blanks}
      \cup {b1 \o a \o l \o b2 :
               b1 \in Blanks, a \in V6Addresses, l \in V6Lengths, b2 \in Blanks}

\* numbers of MAX_QUERY_LENGTH - 1 and of MAX_QUERY_LENGTH + 1 digits
LongQueries ==
    {[i \in 1..(MAX_QUERY_LENGTH - 1) |-> "1"], [i \in 1..(MAX_QUERY_LENGTH + 1) |-> "1"]}

QueryInputs == NameQueries \cup PrefixQueries \cup LongQueries

\* lines 69-110, for the query in rawQuery
CleanQuery ==
    /\ query.outcome = "none"
    /\ query' = Query(rawQuery)
    /\ UNCHANGED <<cacheVars, collVars, expVars, srcVars, rawQuery, previous,
                 resubmits>>

\* the cleaned value is given to the classifier as a query of its own
Resubmit ==
    /\ query.outcome = "ok"
    /\ resubmits < MaxResubmits
    /\ rawQuery' = query.cleaned_value
    /\ previous' = query
    /\ query' = NoQuery
    /\ resubmits' = resubmits + 1
    /\ UNCHANGED <<cacheVars, collVars, expVars, srcVars>>

QueryInit ==
    /\ RedisInit
    /\ redisConfigured = FALSE
    /\ testing = FALSE
    /\ PrefixCollectorInit
    /\ ExpansionIdle
    /\ SourcesIdle
    /\ rawQuery \in QueryInputs
    /\ query = NoQuery
    /\ previous = NoQuery
    /\ resubmits = 0

QueryNext ==
    \/ CleanQuery
    \/ Resubmit

SpecQuery == QueryInit /\ [][QueryNext]_vars

(***************************************************************************)
(* Claims about the classifier, checked under SpecQuery.                   *)
(***************************************************************************)
\* C20: classifying the cleaned value of an accepted query is accepted and
\* yields the same category and the same cleaned value.
C20_Idempotent ==
    (resubmits >= 1 /\ query.outcome # "none") =>
        /\ query.outcome = "ok"
        /\ query.category = previous.category
        /\ query.cleaned_value = previous.cleaned_value


\* the largest number of 32 bits, in decimal
MaxAsnDigits == <<"4", "2", "9", "4", "9", "6", "7", "2", "9", "5">>

\* the decimal number digits is at most 4294967295
FitsIn32Bits(digits) ==
    \/ Len(digits) < Len(MaxAsnDigits)
    \/ Len(digits) = Len(MaxAsnDigits) /\ ~ StrLess(MaxAsnDigits, digits)

\* C21: the cleaned value of a query classified as ASN is "AS" followed by
\* the decimal digits of an unsigned number of at most 32 bits.
C21_AsnIsUnsigned32Bits ==
    (query.outcome = "ok" /\ query.category = "asn") =>
        LET number == SubSeq(query.cleaned_value, 3, Len(query.cleaned_value))
        IN /\ StartsWith(query.cleaned_value, <<"A", "S">>)
           /\ IsNumeric(number)
           /\ FitsIn32Bits(number)

\* the query in rawQuery begins with "AS-", in any letter case
BeginsWithAsDash == StartsWith(Upper(rawQuery), <<"A", "S", "-">>)

\* C22: a query that begins with "AS-" is never classified as ASN: it is
\* accepted as a set under its upper-cased name, or rejected.
C22_AsDashIsNeverAsn ==
    (BeginsWithAsDash /\ query.outcome # "none") =>
        \/ /\ query.outcome = "ok"
           /\ query.category \in {"as-set", "route-set"}
           /\ query.cleaned_value = Upper(Strip(rawQuery))
        \/ query.outcome = "InvalidQueryError"

C22_Witness ==
    /\ BeginsWithAsDash
    /\ query.outcome = "ok"
    /\ query.category = "as-set"
    /\ query.cleaned_value = <<"A", "S", "-", "5">>

\* the query in rawQuery read as a prefix
WrittenPrefix == IPy_IP(Strip(rawQuery))

\* C23: a prefix of exactly the minimum length of its version is accepted as
\* PREFIX; a shorter one is rejected with "Query too large", the message
\* naming the minimum, and is not classified as a set.
C23_FloorAcceptedShorterRejected ==
    (WrittenPrefix.ok /\ query.outcome # "none") =>
        /\ WrittenPrefix.prefixlen = MINIMUM_PREFIX_SIZE(WrittenPrefix.v) =>
              query.outcome = "ok" /\ query.category = "prefix"
        /\ WrittenPrefix.prefixlen < MINIMUM_PREFIX_SIZE(WrittenPrefix.v) =>
              /\ query.outcome = "InvalidQueryError"
              /\ query.error = "Query too large"
              /\ query.floor = MINIMUM_PREFIX_SIZE(WrittenPrefix.v)

C23_Witness ==
    /\ WrittenPrefix.ok
    /\ WrittenPrefix.v = 6
    /\ WrittenPrefix.prefixlen = MINIMUM_PREFIX_SIZE_IPV6 - 1
    /\ query.outcome = "InvalidQueryError"
    /\ query.error = "Query too large"

(***************************************************************************)
(* collect_member_of, collectors.py lines 187-211.  The answer of          *)
(* IRRDQuery.query_member_of is the dictionary data: data["set"] lists the *)
(* sets that name the target, data["autNum"] the aut-num objects with      *)
(* their mntBy and the objects their member-of attributes refer to.  A     *)
(* member-of that refers to no object is None; a missing or empty          *)
(* mbrsByRef is the empty set, as both are false in line 201.              *)
(***************************************************************************)
MaxMemberOfObjs == 1     \* objects an aut-num refers to by member-of

None == [source |-> <<>>, rpslPk |-> <<>>, mbrsByRef |-> {}, none |-> TRUE]

SetObject(source, rpslPk, mbrsByRef) ==
    [source |-> source, rpslPk |-> rpslPk, mbrsByRef |-> mbrsByRef, none |-> FALSE]

RIPE == <<"R", "I", "P", "E">>
RADB == <<"R", "A", "D", "B">>
AS_SETA == <<"A", "S", "-", "S", "E", "T", "A">>
AS_SETB == <<"A", "S", "-", "S", "E", "T", "B">>

MntBySets == {{}, {"MNT-A"}, {"MNT-A", "MNT-C"}}

MbrsByRefSets == {{}, {"ANY"}, {"MNT-A"}, {"MNT-B"}}

MemberOfObjs ==
    {None} \cup {SetObject(s, AS_SETA, m) : s \in {RIPE, RADB}, m \in MbrsByRefSets}

AutNums ==
    {[mntBy |-> m, memberOfObjs |-> o] :
        m \in MntBySets, o \in SeqsUpTo(MemberOfObjs, MaxMemberOfObjs)}

\* a second aut-num that refers to the same set
OtherAutNums ==
    {[mntBy |-> {"MNT-B"}, memberOfObjs |-> <<SetObject(RIPE, AS_SETA, m)>>] :
        m \in {{"MNT-A"}, {"MNT-B"}}}

FoundSets ==
    {<<>>, <<SetObject(RIPE, AS_SETB, {})>>, <<SetObject(RADB, AS_SETA, {})>>}

\* the answers of query_member_of
MemberOfAnswers ==
    {[set |-> s, autNum |-> a] :
        s \in FoundSets,
        a \in {<<>>} \cup {<<x>> : x \in AutNums}
                \cup {<<x, y>> : x \in AutNums, y \in OtherAutNums}}

ObjectClasses == {"as-set", "route-set"}

NoMemberOf == [irrs_seen |-> <<>>, sets_per_irr |-> <<>>]

\* lines 204-206 without the test
ClaimedAlways(autnum_mntners, member_of) == TRUE

\* lines 200-206: the condition under which the set is recorded
Claimed(autnum_mntners, member_of) ==
    LET expected_mntners ==
            IF ~ member_of.none /\ member_of.mbrsByRef # {}
            THEN member_of.mbrsByRef ELSE {}
    IN \/ "ANY" \in expected_mntners
       \/ autnum_mntners \cap expected_mntners # {}

\* lines 192-194: <<source, rpslPk>> of the sets found
FoundPairs(d) == {<<d.set[i].source, d.set[i].rpslPk>> : i \in DOMAIN d.set}

\* lines 196-208: <<source, rpslPk>> of the sets recorded for aut-nums
AutNumPairs(d, class) ==
    IF class = "as-set"
    THEN {<<d.autNum[i].memberOfObjs[j].source, d.autNum[i].memberOfObjs[j].rpslPk>> :
             <<i, j>> \in {ij \in (DOMAIN d.autNum) \X (1..(MaxMemberOfObjs + 1)) :
                 /\ ij[2] \in DOMAIN d.autNum[ij[1]].memberOfObjs
                 /\ Claimed(d.autNum[ij[1]].mntBy,
                            d.autNum[ij[1]].memberOfObjs[ij[2]])}}
    ELSE {}

\* sorted(S) of a set of strings
SortedStrings(S) == CHOOSE o \in Orderings(S) : InOrder(o)

\* lines 188-211
MemberOf(d, class) ==
    LET pairs == FoundPairs(d) \cup AutNumPairs(d, class)
        irrs_seen == {p[1] : p \in pairs}
    IN [irrs_seen |-> SortedStrings(irrs_seen),
        sets_per_irr |-> [s \in irrs_seen |-> {p[2] : p \in {q \in pairs : q[1] = s}}]]

\* collect_member_of(target, object_class) is called: line 189 awaits
CollectMemberOf(class) ==
    /\ mbrPc = "idle"
    /\ object_class' = class
    /\ mbrPc' = "querying"
    /\ UNCHANGED <<cacheVars, collVars, expVars, qryVars, bgpVars, lgVars, data, memberOf>>

\* query_member_of returns d: lines 190-211
QueryMemberOfReturns(d) ==
    /\ mbrPc = "querying"
    /\ data' = d
    /\ memberOf' = MemberOf(d, object_class)
    /\ mbrPc' = "returned"
    /\ UNCHANGED <<cacheVars, collVars, expVars, qryVars, bgpVars, lgVars, object_class>>

\* query_member_of raises: collect_member_of raises the same
QueryMemberOfRaises ==
    /\ mbrPc = "querying"
    /\ mbrPc' = "raised"
    /\ UNCHANGED <<cacheVars, collVars, expVars, qryVars, bgpVars, lgVars, object_class,
                   data, memberOf>>

MemberOfInit ==
    /\ RedisInit
    /\ redisConfigured = FALSE
    /\ testing = FALSE
    /\ PrefixCollectorInit
    /\ ExpansionIdle
    /\ QueryIdle
    /\ SourcesIdle

MemberOfNext ==
    \/ \E class \in ObjectClasses : CollectMemberOf(class)
    \/ \E d \in MemberOfAnswers : QueryMemberOfReturns(d)
    \/ QueryMemberOfRaises

SpecMemberOf == MemberOfInit /\ [][MemberOfNext]_vars

(***************************************************************************)
(* Claims about member-of resolution, checked under SpecMemberOf.          *)
(***************************************************************************)
\* the references <<i, j>>: aut-num i of the answer refers to an object by
\* its member-of j
References ==
    {ij \in (DOMAIN data.autNum) \X (1..(MaxMemberOfObjs + 1)) :
        /\ ij[2] \in DOMAIN data.autNum[ij[1]].memberOfObjs
        /\ ~ data.autNum[ij[1]].memberOfObjs[ij[2]].none}

Referred(ij) == data.autNum[ij[1]].memberOfObjs[ij[2]]

\* the RPSL rule: ANY in mbrs-by-ref, or mnt-by and mbrs-by-ref intersect
MayClaim(ij) ==
    \/ "ANY" \in Referred(ij).mbrsByRef
    \/ \E m \in data.autNum[ij[1]].mntBy : m \in Referred(ij).mbrsByRef

\* the set <<source, rpslPk>> is in the result
Recorded(source, rpslPk) ==
    /\ source \in DOMAIN memberOf.sets_per_irr
    /\ rpslPk \in memberOf.sets_per_irr[source]
    /\ source \in Range(memberOf.irrs_seen)

\* the set <<source, rpslPk>> is one of the sets that name the target
Found(source, rpslPk) ==
    \E i \in DOMAIN data.set : data.set[i].source = source /\ data.set[i].rpslPk = rpslPk

\* C24: with object class ASSET, a set an aut-num refers to is recorded for
\* that reference iff ANY is in its mbrs-by-ref or the aut-num's mnt-by and
\* its mbrs-by-ref intersect: a reference that may claim puts the set in the
\* result, and a set in the result that is not one of the found sets has a
\* reference that may claim.
C24_MbrsByRefFilter ==
    (mbrPc = "returned" /\ object_class = "as-set") =>
        \A ij \in References :
            /\ MayClaim(ij) => Recorded(Referred(ij).source, Referred(ij).rpslPk)
            /\ (/\ Recorded(Referred(ij).source, Referred(ij).rpslPk)
                /\ ~ Found(Referred(ij).source, Referred(ij).rpslPk))
                   => \E kl \in References :
                         /\ Referred(kl).source = Referred(ij).source
                         /\ Referred(kl).rpslPk = Referred(ij).rpslPk
                         /\ MayClaim(kl)

\* two aut-nums refer to the same set; only the second may claim it
C24_Witness ==
    /\ mbrPc = "returned"
    /\ object_class = "as-set"
    /\ data.set = <<>>
    /\ Len(data.autNum) = 2
    /\ <<1, 1>> \in References /\ ~ MayClaim(<<1, 1>>)
    /\ <<2, 1>> \in References /\ MayClaim(<<2, 1>>)
    /\ Referred(<<1, 1>>).mbrsByRef # {}
    /\ Referred(<<1, 1>>).source = RIPE
    /\ memberOf.irrs_seen = <<RIPE>>

(***************************************************************************)
(* Claims about the statistics counters and the refresh, checked under     *)
(* SpecCache.                                                              *)
(***************************************************************************)
\* a step in which a wrapper call looks the key up and no store command raises
LookupCompletes ==
    /\ nCalls' = nCalls + 1
    /\ redisConfigured
    /\ faults' = faults

\* C25: hits and misses never decrease, whatever the cached calls,
\* clear_cache and invalidate_cache_by_resource do, and a lookup in which no
\* store command raises adds one to exactly one of them.
C25_CountersNeverDecrease ==
    [][/\ hits' >= hits
       /\ misses' >= misses
       /\ LookupCompletes => (hits' + misses') = (hits + misses) + 1]_vars

\* a step in which a _refresh_cache task ends
RefreshEnds == lastOp'.kind = "refresh"

\* the task ended well: func returned in time and both setex succeeded
RefreshSucceeded == lastOp'.path = "ok" /\ lastOp'.wfail = "none"

\* C28: a refresh that raises or runs into the timeout leaves the value and
\* the timestamp of its key as they were and does not touch the calls of
\* the readers; only a refresh that succeeds replaces value and timestamp.
C28_FailedRefreshChangesNothing ==
    [][RefreshEnds =>
          /\ inflight' = inflight
          /\ ~ RefreshSucceeded => val' = val /\ ts' = ts]_vars

\* a step of invalidate_cache_by_resource
Invalidates == lastOp'.kind = "invalidate"

\* slot k holds a result of the resource (rtype, a)
OfResource(k, rtype, a) ==
    /\ rtype \in KnownResourceTypes
    /\ FindFrom(KeyPrefix(k[1]), FamilyLiteral(rtype), 1) # 0
    /\ k[2] = a

\* C30: invalidate_cache_by_resource(resource_type, resource_id) leaves the
\* entries of every other resource id, of every other family, and the hits
\* and misses counters as they were.
C30_InvalidationTouchesOnlyItsResource ==
    [][Invalidates =>
          /\ hits' = hits
          /\ misses' = misses
          /\ \A k \in Slots :
                ~ OfResource(k, lastOp'.rtype, lastOp'.key[2]) =>
                    val'[k] = val[k] /\ ts'[k] = ts[k]]_vars

(***************************************************************************)
(* Claims about the adapter calls of the collator, checked under           *)
(* SpecCollector.                                                          *)
(***************************************************************************)
\* the request has ended, by a return or by an exception
RequestEnded == phase \in {"done", "failed"}

\* the calls of the phase that finds the prefixes of the ASN: query_asn of
\* the IRR and of the BGP adapter
AggregateCalls(a) == IF a \in {"IRR", "BGP"} THEN 1 ELSE 0

\* the calls the detail phase of asn_summary has issued
DetailCalls(a) == calls[a] - AggregateCalls(a)

\* asn_summary has ended after its detail phase: after the three tasks of
\* the detail phase, or with no aggregate to collect for
DetailPhaseOver ==
    /\ RequestEnded
    /\ req.op = "asn_summary"
    /\ Len(tasks) = 3 \/ phase = "done"

\* the detail phase issues one call per adapter for all aggregates, and none
\* when there is no aggregate
C29_DetailPhaseBatched ==
    DetailPhaseOver =>
        \A a \in DOMAIN calls :
            DetailCalls(a) = IF searchPrefixes = {} THEN 0 ELSE 1

\* C29: prefix_summary issues exactly one call to each of the three adapters,
\* and the detail phase of asn_summary exactly one call to each adapter for
\* all aggregates together, none when there is no aggregate.
C29_OneCallPerAdapter ==
    /\ (RequestEnded /\ req.op = "prefix_summary") =>
           \A a \in DOMAIN calls : calls[a] = 1
    /\ C29_DetailPhaseBatched

\* C29 amended: prefix_summary issues no call when the search prefix is
\* shorter than the minimum of its version, and exactly one call to each of
\* the three adapters otherwise; the detail phase is as claimed.
C29_OneCallPerAdapterAboveFloor ==
    /\ (RequestEnded /\ req.op = "prefix_summary") =>
           \A a \in DOMAIN calls :
               calls[a] = IF MINIMUM_PREFIX_SIZE(req.prefix.v) > req.prefix.len
                          THEN 0 ELSE 1
    /\ C29_DetailPhaseBatched

\* asn_summary returned after a detail phase over two aggregates
C29_Witness ==
    /\ phase = "done"
    /\ req.op = "asn_summary"
    /\ Cardinality(searchPrefixes) >= 2
    /\ \A a \in DOMAIN calls : DetailCalls(a) = 1

(***************************************************************************)
(* BGPQuery.query_asn, bgp.py lines 102-121.  The rows of the bgp table    *)
(* with the asn asked for come one at a time from database.iterate; row i  *)
(* is the i-th of them.                                                    *)
(***************************************************************************)
MAX_QUERY_RESULTS == 10000

MaxFewRows == 50      \* rows of a table that holds few
MaxExtraRows == 2     \* rows around MAX_QUERY_RESULTS of a table that holds many

\* the i-th row that matches asn: its prefix is told apart by i
Row(i, asn) == [prefix |-> i, asn |-> asn]

\* lines 113-119
RouteInfo(row) == [source |-> "BGP", prefix |-> row.prefix, asn |-> row.asn]

\* the numbers of rows that match
MatchingRows ==
    (0..MaxFewRows)
        \cup {MAX_QUERY_RESULTS + x : x \in (0 - MaxExtraRows)..MaxExtraRows}

\* line 108 with > for >=
LimitReachedLate(n) == n > MAX_QUERY_RESULTS

\* line 108: count >= MAX_QUERY_RESULTS
LimitReached(n) == n >= MAX_QUERY_RESULTS

\* lines 103-106: before the loop
LoopStart == [count |-> 0, results |-> <<>>, warnings |-> 0, broke |-> FALSE]

\* lines 108-120: the body of the loop for one row
LoopBody(s, row) ==
    IF LimitReached(s.count)
    THEN [s EXCEPT !.warnings = @ + 1, !.broke = TRUE]
    ELSE [s EXCEPT !.results = Append(@, RouteInfo(row)), !.count = @ + 1]

RECURSIVE Iterate(_, _, _, _)
\* line 107: the loop over the rows lo..hi in their order, left at the break;
\* the rows are taken half by half to keep the evaluation shallow
Iterate(lo, hi, asn, s) ==
    IF lo > hi THEN s
    ELSE IF lo = hi THEN LoopBody(s, Row(lo, asn))
    ELSE LET mid == (lo + hi) \div 2
             first == Iterate(lo, mid, asn, s)
         IN IF first.broke THEN first ELSE Iterate(mid + 1, hi, asn, first)

\* query_asn(asn) on a table with n matching rows returns: lines 103-121
QueryAsn(asn, n) ==
    /\ bgpPc = "idle"
    /\ bgpAsn' = asn
    /\ matching' = n
    /\ LET last == Iterate(1, n, asn, LoopStart)
       IN /\ count' = last.count
          /\ bgpResults' = last.results
          /\ warnings' = warnings + last.warnings
    /\ bgpPc' = "returned"
    /\ UNCHANGED <<cacheVars, collVars, expVars, qryVars, mbrVars, lgVars>>

\* the database raises while iterating: query_asn raises the same
QueryAsnRaises(asn, n) ==
    /\ bgpPc = "idle"
    /\ bgpAsn' = asn
    /\ matching' = n
    /\ bgpPc' = "raised"
    /\ UNCHANGED <<cacheVars, collVars, expVars, qryVars, mbrVars, lgVars, count,
                   bgpResults, warnings>>

BgpInit ==
    /\ RedisInit
    /\ redisConfigured = FALSE
    /\ testing = FALSE
    /\ PrefixCollectorInit
    /\ ExpansionIdle
    /\ QueryIdle
    /\ SourcesIdle

BgpNext ==
    \/ \E asn \in ASNs, n \in MatchingRows : QueryAsn(asn, n)
    \/ \E asn \in ASNs, n \in MatchingRows : QueryAsnRaises(asn, n)

SpecBgp == BgpInit /\ [][BgpNext]_vars

(***************************************************************************)
(* Claims about the BGP adapter, checked under SpecBgp.                    *)
(***************************************************************************)
\* the smaller of two numbers
Smaller(a, b) == IF a < b THEN a ELSE b

\* C26: query_asn returns the first min(n, MAX_QUERY_RESULTS) of the n rows
\* that match, logs a warning iff n exceeds MAX_QUERY_RESULTS, and returns
\* the truncated list instead of raising.
C26_CappedAtMaxQueryResults ==
    bgpPc = "returned" =>
        /\ Len(bgpResults) = Smaller(matching, MAX_QUERY_RESULTS)
        /\ \A i \in DOMAIN bgpResults :
              bgpResults[i] = [source |-> "BGP", prefix |-> i, asn |-> bgpAsn]
        /\ warnings = (IF matching > MAX_QUERY_RESULTS THEN 1 ELSE 0)

C26_Witness ==
    /\ bgpPc = "returned"
    /\ matching = MAX_QUERY_RESULTS + 2
    /\ Len(bgpResults) = MAX_QUERY_RESULTS
    /\ warnings = 1

(***************************************************************************)
(* LookingGlassClient.query_prefix, lookingglass.py lines 30-64, with      *)
(* _parse_prefix_response, lines 181-204.  The HTTP layer answers          *)
(* session.get with a response or an exception, and response.json() with   *)
(* the decoded body or an exception.                                       *)
(***************************************************************************)
MaxRoutes == 2        \* routes in a body

Statuses == {200, 301, 403, 404, 500, 503}

\* what session.get and response.json() raise; each derives from Exception
HttpExceptions ==
    {"asyncio.TimeoutError", "aiohttp.ClientConnectionError",
     "aiohttp.ContentTypeError"}

LgPrefixes == {"192.0.2.0/24", "2001:db8::/32"}

\* a route of a body: as_path is missing when has_as_path is FALSE; a route
\* that is no JSON object has is_object FALSE
Route(has_as_path, as_path, peer) ==
    [is_object |-> TRUE, prefix |-> "192.0.2.0/24", has_as_path |-> has_as_path,
     as_path |-> as_path, peer |-> peer]

NotARoute ==
    [is_object |-> FALSE, prefix |-> "", has_as_path |-> FALSE, as_path |-> <<>>,
     peer |-> ""]

Routes ==
    {Route(FALSE, <<>>, "peer1"), Route(TRUE, <<>>, "peer1"),
     Route(TRUE, <<13335>>, "peer2"), Route(TRUE, <<174, 13335>>, "peer1"),
     Route(TRUE, <<3333, 174, 64500>>, "peer2"), NotARoute}

\* the decoded bodies: an object with its "prefix" and "routes" (routes
\* missing: has_routes FALSE; routes null: routes_null TRUE), or a value
\* that is no object
Body(has_routes, routes_null, routes) ==
    [is_object |-> TRUE, prefix |-> "192.0.2.0/24", has_routes |-> has_routes,
     routes_null |-> routes_null, routes |-> routes]

Bodies ==
    {Body(TRUE, FALSE, r) : r \in SeqsUpTo(Routes, MaxRoutes)}
        \cup {Body(FALSE, FALSE, <<>>), Body(TRUE, TRUE, <<>>),
              [Body(FALSE, FALSE, <<>>) EXCEPT !.is_object = FALSE]}

\* lines 185-198: the route as it is returned; origin_asn is the last of
\* as_path, or None (NoAsn)
ParsedRoute(route) ==
    [prefix |-> route.prefix,
     as_path |-> IF route.has_as_path THEN route.as_path ELSE <<>>,
     origin_asn |-> IF route.has_as_path /\ route.as_path # <<>>
                    THEN route.as_path[Len(route.as_path)] ELSE NoAsn,
     peer |-> route.peer]

\* the exception _parse_prefix_response raises on data, "" when it raises none
ParseRaises(body) ==
    IF ~ body.is_object THEN "AttributeError"
    ELSE IF body.routes_null THEN "TypeError"
    ELSE IF \E i \in DOMAIN body.routes : ~ body.routes[i].is_object
    THEN "AttributeError"
    ELSE ""

\* a dictionary that query_prefix returns
Answer(prefix, routes, has_error, error, status) ==
    [prefix |-> prefix, routes |-> routes, has_error |-> has_error,
     error |-> error, status |-> status]

\* lines 181-204
parse_prefix_response(body) ==
    Answer(body.prefix,
           IF body.has_routes
           THEN [i \in DOMAIN body.routes |-> ParsedRoute(body.routes[i])]
           ELSE <<>>,
           FALSE, "", 0)

\* the classes that derive from Exception
IsException(exc) ==
    exc \in HttpExceptions \cup {"AttributeError", "TypeError"}

\* lines 56-58 only: nothing but the timeout is caught
CatchesTimeoutOnly(exc) == exc = "asyncio.TimeoutError"

\* lines 56-64: the except clauses catch exc
Catches(exc) == exc = "asyncio.TimeoutError" \/ IsException(exc)

\* lines 56-64: exc is raised inside the try
Except(exc) ==
    /\ lgErrors' = lgErrors + 1
    /\ IF Catches(exc)
       THEN /\ lgPc' = "returned"
            /\ lgResult' = Answer(lgPrefix, <<>>, TRUE,
                                  IF exc = "asyncio.TimeoutError"
                                  THEN "Query timeout" ELSE exc, 0)
       ELSE /\ lgPc' = "raised"
            /\ UNCHANGED lgResult

\* query_prefix(prefix) up to "async with session.get(url)": lines 40-43
QueryPrefix(prefix) ==
    /\ lgPc = "idle"
    /\ lgPrefix' = prefix
    /\ lgPc' = "get"
    /\ UNCHANGED <<cacheVars, collVars, expVars, qryVars, mbrVars, bgpVars, lgReply,
                   lgResult, lgErrors>>

\* session.get gives a response with this status: lines 43-55
GetReturns(status) ==
    /\ lgPc = "get"
    /\ lgReply' = [lgReply EXCEPT !.status = status]
    /\ IF status = 200
       THEN /\ lgPc' = "json"
            /\ UNCHANGED <<lgResult, lgErrors>>
       ELSE IF status = 404
       THEN /\ lgPc' = "returned"
            /\ lgResult' = Answer(lgPrefix, <<>>, TRUE, "Not found", 0)
            /\ UNCHANGED lgErrors
       ELSE /\ lgPc' = "returned"
            /\ lgErrors' = lgErrors + 1
            /\ lgResult' = Answer(lgPrefix, <<>>, TRUE, "API error", status)
    /\ UNCHANGED <<cacheVars, collVars, expVars, qryVars, mbrVars, bgpVars, lgPrefix>>

\* session.get raises exc
GetRaises(exc) ==
    /\ lgPc = "get"
    /\ lgReply' = [lgReply EXCEPT !.raised = exc]
    /\ Except(exc)
    /\ UNCHANGED <<cacheVars, collVars, expVars, qryVars, mbrVars, bgpVars, lgPrefix>>

\* response.json() gives body: lines 45-46
JsonReturns(body) ==
    /\ lgPc = "json"
    /\ lgReply' = [lgReply EXCEPT !.body = body, !.raised = ParseRaises(body)]
    /\ IF ParseRaises(body) # ""
       THEN Except(ParseRaises(body))
       ELSE /\ lgPc' = "returned"
            /\ lgResult' = parse_prefix_response(body)
            /\ UNCHANGED lgErrors
    /\ UNCHANGED <<cacheVars, collVars, expVars, qryVars, mbrVars, bgpVars, lgPrefix>>

\* response.json() raises exc
JsonRaises(exc) ==
    /\ lgPc = "json"
    /\ lgReply' = [lgReply EXCEPT !.raised = exc]
    /\ Except(exc)
    /\ UNCHANGED <<cacheVars, collVars, expVars, qryVars, mbrVars, bgpVars, lgPrefix>>

LookingGlassInit ==
    /\ RedisInit
    /\ redisConfigured = FALSE
    /\ testing = FALSE
    /\ PrefixCollectorInit
    /\ ExpansionIdle
    /\ QueryIdle
    /\ SourcesIdle

LookingGlassNext ==
    \/ \E prefix \in LgPrefixes : QueryPrefix(prefix)
    \/ \E status \in Statuses : GetReturns(status)
    \/ \E exc \in HttpExceptions : GetRaises(exc)
    \/ \E body \in Bodies : JsonReturns(body)
    \/ \E exc \in HttpExceptions : JsonRaises(exc)

SpecLookingGlass == LookingGlassInit /\ [][LookingGlassNext]_vars

(***************************************************************************)
(* Claims about the looking glass client, checked under SpecLookingGlass.  *)
(***************************************************************************)
\* query_prefix returned empty routes with an error
EmptyWithError == lgResult.routes = <<>> /\ lgResult.has_error

\* C27: query_prefix never raises: a response 200 whose body is read gives
\* the parsed routes, 404 gives no routes and the error "Not found", any
\* other status no routes and "API error: <status>", and a timeout or any
\* other exception no routes and an error.
C27_NeverRaises ==
    /\ lgPc # "raised"
    /\ lgPc = "returned" =>
          IF lgReply.raised # ""
          THEN EmptyWithError /\ lgResult.error # ""
          ELSE IF lgReply.status = 200
          THEN /\ ~ lgResult.has_error
               /\ Len(lgResult.routes) = Len(lgReply.body.routes)
               /\ \A i \in DOMAIN lgResult.routes :
                     /\ lgResult.routes[i].peer = lgReply.body.routes[i].peer
                     /\ lgReply.body.routes[i].as_path # <<>> =>
                            lgResult.routes[i].origin_asn =
                                lgReply.body.routes[i].as_path[
                                    Len(lgReply.body.routes[i].as_path)]
          ELSE IF lgReply.status = 404
          THEN EmptyWithError /\ lgResult.error = "Not found"
          ELSE /\ EmptyWithError
               /\ lgResult.error = "API error"
               /\ lgResult.status = lgReply.status

\* a body of the status 200 that cannot be parsed ends as an error
C27_Witness ==
    /\ lgPc = "returned"
    /\ lgReply.status = 200
    /\ lgReply.raised = "AttributeError"
    /\ Len(lgReply.body.routes) = 2
    /\ EmptyWithError

====
